---- MODULE Spec2Model ----
(***************************************************************************)
(* A model of the supakiln code execution engine: the CodeExecutor         *)
(* (image digest, port allocation, reusable and web-service sandboxes),    *)
(* the /containers and /execute routers, and the ServiceManager.           *)
(***************************************************************************)
EXTENDS Integers, Sequences, FiniteSets, TLC

VARIABLES
    docker,                  \* the container runtime: sandbox id -> record
    containers,              \* CodeExecutor.containers: package_hash -> container_id
    web_service_containers,  \* CodeExecutor.web_service_containers: container_id -> info
    container_names,         \* routers/containers.py container_names: container_id -> name
    thr,                     \* per worker: position inside CodeExecutor.execute_code and its locals
    logs,                    \* ExecutionLog rows, in insertion order
    responses,               \* what each finished request answered, in order
    destroyed,               \* sandbox ids a destroy has returned for
    nreq,                    \* number of requests accepted so far
    pkgA, pkgB,              \* two package lists handed to _get_package_hash
    hashA, hashB,            \* their digests, once computed
    services,                \* PersistentService rows: service id -> record
    service_threads,         \* ServiceManager.service_threads: ids with a thread entry
    running_services,        \* ServiceManager.running_services: ids with process info
    monitors,                \* _run_service threads alive: service id -> how many
    loop,                    \* the service whose restart request is in its pause, or 0
    stopped_by_request,      \* services whose latest control request was an explicit stop
    webhook_jobs,            \* WebhookJob rows: job id -> record
    webhook_containers,      \* routers/webhook_execution.py executor.containers
    webhook_logs,            \* ExecutionLog rows written by execute_webhook
    service_names,           \* PersistentService.name: service id -> name
    auto_start,              \* PersistentService.auto_start: service id -> flag
    started_up,              \* startup_event: [done, migrated, failed]
    scheduled_jobs,          \* ScheduledJob rows: job id -> record
    schedule,                \* ids the in-memory scheduler holds a trigger for
    vault,                   \* EnvironmentManager: the decrypted name -> value map
    launches,                \* user-code processes launched: [path, env]
    proxy_request,           \* a request to the reverse proxy: [type, id, path, rest]
    proxy_target,            \* the upstream path computed for it
    api_responses,           \* answers of the store and webhook endpoints, in order
    results,                 \* what each bound or unbound execution reported, in order
    processes,               \* user processes in progress: sandbox id -> how many
    job_logs,                \* ExecutionLog rows written by execute_job, in order
    last_run,                \* ScheduledJob.last_run: job id -> the firing that set it, or 0
    cron_containers,         \* scheduler.py self.executor.containers
    fired,                   \* the triggers that fired: [job, active], in order
    relay,                   \* one WebSocket relay: the two connections and the two pumps
    fetch,                   \* one proxied HTTP request: where proxy_request is in its loops
    registry,                \* web_service_containers in insertion order: [cid, type]
    route,                   \* the latest request under /proxy/ and where it was sent
    builders,                \* callers of _build_image: thread -> [pc, packages, result]
    dockerfile,              \* the file Dockerfile.temp of the working directory
    images,                  \* image tags built: digest -> the packages installed in it
    web_starts,              \* the start of each web sandbox: what was true and what was reported
    detected                 \* the latest call of _detect_web_service: its arguments and result

vars == <<docker, containers, web_service_containers, container_names, thr, logs,
          responses, destroyed, nreq, pkgA, pkgB, hashA, hashB, services,
          service_threads, running_services, monitors, loop, stopped_by_request,
          webhook_jobs, webhook_containers, webhook_logs, service_names, auto_start,
          started_up, scheduled_jobs, schedule, vault, launches, proxy_request,
          proxy_target, api_responses, results, processes, job_logs, last_run,
          cron_containers, fired, relay, fetch,
          registry, route, builders, dockerfile, images, web_starts, detected>>

managerVars == <<docker, containers, web_service_containers, container_names, thr,
                 logs, responses, destroyed, nreq>>
digestVars == <<pkgA, pkgB, hashA, hashB>>
serviceVars == <<services, service_threads, running_services, monitors, loop,
                 stopped_by_request>>
webhookVars == <<webhook_jobs, webhook_containers, webhook_logs>>
catalogVars == <<service_names, auto_start, started_up>>
jobVars == <<scheduled_jobs, schedule>>
vaultVars == <<vault, launches>>
proxyVars == <<proxy_request, proxy_target>>
execVars == <<results, processes>>
cronVars == <<job_logs, last_run, cron_containers, fired>>
relayVars == <<relay>>
fetchVars == <<fetch>>
routeVars == <<registry, route>>
buildVars == <<builders, dockerfile, images>>
startVars == <<web_starts>>
detectVars == <<detected>>
otherVars == <<cronVars, relayVars, fetchVars, routeVars, buildVars, startVars,
               detectVars>>
engineVars == <<webhookVars, catalogVars, jobVars, vaultVars, proxyVars, execVars,
                otherVars, api_responses>>

(***************************************************************************)
(* Bounds of the model.                                                    *)
(***************************************************************************)
NumThreads == 2        \* callers that may be inside execute_code at once
MaxContainers == 3     \* sandbox ids the runtime hands out
MaxRequests == 3       \* requests accepted in one behaviour
NumPorts == 2          \* ports of the range the model draws from
MaxPkgs == 2           \* longest package list handed to _get_package_hash
NumServices == 2       \* PersistentService rows
MaxMonitors == 2       \* _run_service threads alive at once
MaxJobs == 2           \* WebhookJob rows, and ScheduledJob rows, ever created
MaxCalls == 3          \* requests to the store and webhook endpoints in one behaviour
MaxLaunches == 2       \* user-code processes launched in one behaviour
MaxPathLen == 3        \* tokens of a request path after /proxy/<id>/
MaxDuration == 3       \* longest run of a user program, in seconds
MaxTimeout == 2        \* largest timeout a request asks for, in seconds
MaxRuns == 2           \* timed executions of one behaviour
MaxFirings == 3        \* cron triggers that fire in one behaviour
MaxFrames == 2         \* frames each end of a WebSocket sends
MaxWebServices == 2    \* web services registered in one behaviour
ShortIdLen == 2        \* characters of a short id (container_id[:8], scaled down)

(***************************************************************************)
(* Program constants.                                                      *)
(***************************************************************************)
PortLo == 9000
PortHi == 9999

None == "None"

Threads == 1..NumThreads
Ids == 1..MaxContainers
Ports == PortLo..(PortLo + NumPorts - 1)

(***************************************************************************)
(* _get_package_hash: sorted(packages), joined by "-", md5, first 12 hex.  *)
(***************************************************************************)
\* The package names of the model, in Python's string order.
PkgOrder == <<"numpy", "pandas", "streamlit">>

Rank(p) == CHOOSE i \in DOMAIN PkgOrder : PkgOrder[i] = p

PkgNames == {PkgOrder[i] : i \in DOMAIN PkgOrder}

PkgLists == UNION {[1..n -> PkgNames] : n \in 0..MaxPkgs}

RECURSIVE Insert(_, _)
Insert(p, s) ==
    IF s = <<>> THEN <<p>>
    ELSE IF Rank(p) <= Rank(Head(s)) THEN <<p>> \o s
    ELSE <<Head(s)>> \o Insert(p, Tail(s))

\* sorted(packages): every element kept, duplicates included
RECURSIVE Sorted(_)
Sorted(s) == IF s = <<>> THEN <<>> ELSE Insert(Head(s), Sorted(Tail(s)))

\* "-".join(sorted_packages)
RECURSIVE Join(_)
Join(s) ==
    IF s = <<>> THEN ""
    ELSE IF Len(s) = 1 THEN s[1]
    ELSE s[1] \o "-" \o Join(Tail(s))

\* hashlib.md5(...).hexdigest()[:12]: collision-free on the strings of the model,
\* so two digests are equal exactly when the hashed strings are equal
Md5Hex12(str) == "md5:" \o str

GetPackageHash(packages) == Md5Hex12(Join(Sorted(packages)))

\* the package set of a list: what "sorted and de-duplicated" compares
PackageSet(packages) == {packages[i] : i \in DOMAIN packages}

(***************************************************************************)
(* _detect_web_service.  A code text is modelled by the set of the         *)
(* substrings the rules look for that it contains: "st." in the text as    *)
(* written, the others in the lower-cased text.                            *)
(***************************************************************************)
InPackages(p, packages) == \E i \in DOMAIN packages : packages[i] = p

DetectWebService(code, packages) ==
    IF InPackages("streamlit", packages) \/ "streamlit" \in code \/ "st." \in code
        THEN "streamlit"
    ELSE IF InPackages("fastapi", packages) \/ InPackages("uvicorn", packages)
            \/ ("fastapi" \in code /\ "uvicorn" \in code)
        THEN "fastapi"
    ELSE IF InPackages("flask", packages) \/ "flask" \in code
        THEN "flask"
    ELSE IF InPackages("dash", packages)
            \/ ("dash" \in code /\ InPackages("plotly", packages))
        THEN "dash"
    ELSE None

(***************************************************************************)
(* The container runtime and the host's ports.                             *)
(***************************************************************************)
Range(f) == {f[x] : x \in DOMAIN f}

\* What a creation call asks the runtime for.  The user is the one the image
\* sets (the Dockerfile written by _build_image ends with USER codeuser).
NoOptions ==
    [memory_mb |-> 0, cpu_quota |-> FALSE, pids_limit |-> FALSE, read_only |-> FALSE,
     cap_drop_all |-> FALSE, cap_add |-> {}, no_new_privileges |-> FALSE,
     seccomp |-> FALSE, user |-> ""]

\* docker run -d --memory 512m --cpus 0.5 --network bridge (execute_code,
\* lines 682-690); the web-service call (396-412) adds only -p
OneShotRunOptions ==
    [NoOptions EXCEPT !.memory_mb = 512, !.cpu_quota = TRUE, !.user = "codeuser"]

WebRunOptions ==
    [NoOptions EXCEPT !.memory_mb = 512, !.cpu_quota = TRUE, !.user = "codeuser"]

AbsentSandbox ==
    [state |-> "absent", hash |-> "", port |-> 0, web |-> FALSE, opts |-> NoOptions]
RemovedSandbox ==
    [state |-> "removed", hash |-> "", port |-> 0, web |-> FALSE, opts |-> NoOptions]

IsRunning(c) == docker[c].state = "running"

\* the id `docker run` prints: one the runtime has not used yet
FreshIds == {c \in Ids : docker[c].state = "absent"}
NewId == CHOOSE c \in FreshIds : \A d \in FreshIds : c <= d

\* host ports a running sandbox has published
PublishedPorts == {docker[c].port : c \in {x \in Ids : IsRunning(x) /\ docker[x].port # 0}}

NoPort == 0

\* _allocate_port: up to 100 random draws from the range, each tested by binding
\* a socket that is closed again before the port is returned; the outcomes are
\* a port that was free at the test, or NoPort (the exception) when every draw
\* hit a port in use
AllocatePort ==
    (Ports \ PublishedPorts) \cup (IF PublishedPorts # {} THEN {NoPort} ELSE {})

\* for package_hash, cid in list(self.containers.items()): if cid == c: del ...
Evict(map, c) == [h \in {k \in DOMAIN map : map[k] # c} |-> map[h]]

IdleThread == [pc |-> "idle", req |-> 0, rid |-> 0, cid |-> 0, iport |-> 0, eport |-> 0]

\* The requests the model submits to execute_code: two one-shot programs with
\* different package lists and one Streamlit program.
ReqList == <<[code |-> {}, packages |-> <<>>],
             [code |-> {}, packages |-> <<"numpy">>],
             [code |-> {"st."}, packages |-> <<>>]>>

HashOf(t) == GetPackageHash(ReqList[thr[t].req].packages)
WebOf(t) == DetectWebService(ReqList[thr[t].req].code, ReqList[thr[t].req].packages)

(***************************************************************************)
(* POST /execute without container_id (routers/execution.py) around        *)
(* CodeExecutor.execute_code.  The handler writes one ExecutionLog row     *)
(* and answers.  `outcome` records what the run did: "ok", "error",        *)
(* "timeout", "create_failed", "save_failed", "start_failed".               *)
(***************************************************************************)
\* routers/execution.py lines 241-269: the row's status is success or error
\* and the response is built without a timed_out key
AnswerResult(t, outcome, cid) ==
    /\ logs' = Append(logs, [rid |-> thr[t].rid, op |-> "execute",
                             status |-> IF outcome = "ok" THEN "success" ELSE "error",
                             container_id |-> cid])
    /\ responses' = Append(responses, [rid |-> thr[t].rid, op |-> "execute",
                             code |-> 200, success |-> (outcome = "ok"),
                             timed_out |-> "absent", container_id |-> cid,
                             outcome |-> outcome])
    /\ thr' = [thr EXCEPT ![t] = IdleThread]

\* an exception out of execute_code: lines 273-294, an error row and HTTP 500
AnswerException(t, rid) ==
    /\ logs' = Append(logs, [rid |-> rid, op |-> "execute",
                             status |-> "error", container_id |-> 0])
    /\ responses' = Append(responses, [rid |-> rid, op |-> "execute",
                             code |-> 500, success |-> FALSE,
                             timed_out |-> "absent", container_id |-> 0,
                             outcome |-> "exception"])
    /\ thr' = [thr EXCEPT ![t] = IdleThread]

\* execute_code lines 375-382 and 676-700: the digest, _detect_web_service (which
\* allocates the internal port first), then the lookup in the reuse map
ExecuteBegin(t) ==
    /\ thr[t].pc = "idle"
    /\ nreq < MaxRequests
    /\ nreq' = nreq + 1
    /\ \E r \in DOMAIN ReqList, ip \in AllocatePort :
        LET hash == GetPackageHash(ReqList[r].packages)
            web == DetectWebService(ReqList[r].code, ReqList[r].packages)
            me == [IdleThread EXCEPT !.req = r, !.rid = nreq + 1]
        IN  IF ip = NoPort
            THEN AnswerException(t, nreq + 1)
            ELSE /\ UNCHANGED <<logs, responses>>
                 /\ thr' = [thr EXCEPT ![t] =
                        IF web # None
                        THEN [me EXCEPT !.pc = "build", !.iport = ip]
                        ELSE IF hash \in DOMAIN containers
                        THEN [me EXCEPT !.pc = "exec", !.cid = containers[hash]]
                        ELSE [me EXCEPT !.pc = "build"]]
    /\ UNCHANGED <<docker, containers, web_service_containers, container_names, destroyed>>
    /\ UNCHANGED <<digestVars, serviceVars, engineVars>>

\* _build_image (lines 131-182): returns the tag, or raises when the runtime
\* refuses the build
BuildImage(t) ==
    /\ thr[t].pc = "build"
    /\ \E ok \in BOOLEAN :
        IF ok
        THEN /\ thr' = [thr EXCEPT ![t].pc = IF WebOf(t) # None THEN "wport" ELSE "run"]
             /\ UNCHANGED <<logs, responses>>
        ELSE AnswerException(t, thr[t].rid)
    /\ UNCHANGED <<docker, containers, web_service_containers, container_names,
                   destroyed, nreq>>
    /\ UNCHANGED <<digestVars, serviceVars, engineVars>>

\* lines 682-700: docker run for a reusable sandbox, then
\* self.containers[package_hash] = container_id and the read back
RunReusable(t) ==
    /\ thr[t].pc = "run"
    /\ FreshIds # {}
    /\ \E ok \in BOOLEAN :
        IF ok
        THEN /\ docker' = [docker EXCEPT ![NewId] =
                    [state |-> "running", hash |-> HashOf(t), port |-> 0, web |-> FALSE,
                     opts |-> OneShotRunOptions]]
             /\ containers' = [h \in DOMAIN containers \cup {HashOf(t)} |->
                                 IF h = HashOf(t) THEN NewId ELSE containers[h]]
             /\ thr' = [thr EXCEPT ![t].pc = "exec", ![t].cid = NewId]
             /\ UNCHANGED <<logs, responses>>
        ELSE /\ AnswerResult(t, "create_failed", 0)
             /\ UNCHANGED <<docker, containers>>
    /\ UNCHANGED <<web_service_containers, container_names, destroyed, nreq>>
    /\ UNCHANGED <<digestVars, serviceVars, engineVars>>

\* lines 703-764 with _execute_with_timeout (184-210): docker exec under the
\* timeout; on expiry the sandbox is killed, removed and dropped from the reuse
\* map, and the result still carries its id
ExecOneShot(t) ==
    /\ thr[t].pc = "exec"
    /\ LET c == thr[t].cid IN
       IF ~IsRunning(c)
       THEN /\ AnswerResult(t, "error", c)
            /\ UNCHANGED <<docker, containers>>
       ELSE \E outcome \in {"ok", "error", "timeout"} :
            /\ AnswerResult(t, outcome, c)
            /\ IF outcome = "timeout"
               THEN /\ docker' = [docker EXCEPT ![c] = RemovedSandbox]
                    /\ containers' = Evict(containers, c)
               ELSE UNCHANGED <<docker, containers>>
    /\ UNCHANGED <<web_service_containers, container_names, destroyed, nreq>>
    /\ UNCHANGED <<digestVars, serviceVars, engineVars>>

\* lines 386-388: external_port = self._allocate_port()
AllocateExternalPort(t) ==
    /\ thr[t].pc = "wport"
    /\ \E ep \in AllocatePort :
        IF ep = NoPort
        THEN AnswerException(t, thr[t].rid)
        ELSE /\ thr' = [thr EXCEPT ![t].pc = "wrun", ![t].eport = ep]
             /\ UNCHANGED <<logs, responses>>
    /\ UNCHANGED <<docker, containers, web_service_containers, container_names,
                   destroyed, nreq>>
    /\ UNCHANGED <<digestVars, serviceVars, engineVars>>

\* lines 396-422: docker run -d -p external:internal; the runtime refuses a host
\* port that a running sandbox already publishes; on success the service info
\* is stored under the new id
RunWebSandbox(t) ==
    /\ thr[t].pc = "wrun"
    /\ FreshIds # {}
    /\ \E ok \in BOOLEAN :
        IF ok /\ thr[t].eport \notin PublishedPorts
        THEN /\ docker' = [docker EXCEPT ![NewId] =
                    [state |-> "running", hash |-> HashOf(t),
                     port |-> thr[t].eport, web |-> TRUE, opts |-> WebRunOptions]]
             /\ web_service_containers' =
                    [c \in DOMAIN web_service_containers \cup {NewId} |->
                        IF c = NewId
                        THEN [type |-> WebOf(t), internal_port |-> thr[t].iport,
                              external_port |-> thr[t].eport]
                        ELSE web_service_containers[c]]
             /\ thr' = [thr EXCEPT ![t].pc = "wsave", ![t].cid = NewId]
             /\ UNCHANGED <<logs, responses>>
        ELSE /\ AnswerResult(t, "create_failed", 0)
             /\ UNCHANGED <<docker, web_service_containers>>
    /\ UNCHANGED <<containers, container_names, destroyed, nreq>>
    /\ UNCHANGED <<digestVars, serviceVars, engineVars>>

\* lines 424-436: the code is written to /tmp/app.py through
\* _execute_with_timeout; on expiry the sandbox is killed and removed, and only
\* the reuse map is searched for its id
SaveWebCode(t) ==
    /\ thr[t].pc = "wsave"
    /\ LET c == thr[t].cid IN
       \E outcome \in {"ok", "error", "timeout"} :
            /\ IF outcome = "ok"
               THEN /\ thr' = [thr EXCEPT ![t].pc = "wlaunch"]
                    /\ UNCHANGED <<logs, responses>>
               ELSE AnswerResult(t, "save_failed", 0)
            /\ IF outcome = "timeout"
               THEN /\ docker' = [docker EXCEPT ![c] = RemovedSandbox]
                    /\ containers' = Evict(containers, c)
               ELSE UNCHANGED <<docker, containers>>
    /\ UNCHANGED <<web_service_containers, container_names, destroyed, nreq>>
    /\ UNCHANGED <<digestVars, serviceVars, engineVars>>

\* lines 452-675: validation, package check and start script (each through
\* _execute_with_timeout, which kills the sandbox on expiry), docker exec -d of
\* the start script, the 8 s wait and the three probes (again through
\* _execute_with_timeout).  The result is a success exactly when docker exec -d
\* returned 0.  killed: "no", "before" the start or "after" it.
LaunchWebService(t) ==
    /\ thr[t].pc = "wlaunch"
    /\ LET c == thr[t].cid IN
       \E killed \in {"no", "before", "after"}, started \in BOOLEAN :
            /\ (killed = "before") => ~started
            /\ AnswerResult(t, IF started THEN "ok" ELSE "start_failed", c)
            /\ IF killed # "no"
               THEN /\ docker' = [docker EXCEPT ![c] = RemovedSandbox]
                    /\ containers' = Evict(containers, c)
               ELSE UNCHANGED <<docker, containers>>
    /\ UNCHANGED <<web_service_containers, container_names, destroyed, nreq>>
    /\ UNCHANGED <<digestVars, serviceVars, engineVars>>

(***************************************************************************)
(* routers/containers.py and the bound path of POST /execute.  The         *)
(* handlers are coroutines that never await, so each runs as one step.     *)
(***************************************************************************)
EmptyMap == [x \in {} |-> 0]

Names == {"A", "B"}

\* package lists a POST /containers request carries
CreatePackages == {<<>>, <<"numpy">>}

HandlerResponse(op, code, cid, outcome, timed_out) ==
    [rid |-> nreq + 1, op |-> op, code |-> code, success |-> (outcome = "ok"),
     timed_out |-> timed_out, container_id |-> cid, outcome |-> outcome]

\* create_container (lines 14-91).  The name check's HTTPException(400) is
\* caught by the handler's own `except Exception` and answered as 500.  With no
\* sandbox for the digest the handler calls _get_secure_container_options,
\* which CodeExecutor does not define (AttributeError, 500).  With one it
\* records the name and then reads `container`, which is bound only in the
\* other branch (UnboundLocalError, 500).
CreateContainer ==
    /\ nreq < MaxRequests
    /\ nreq' = nreq + 1
    /\ \E name \in Names, packages \in CreatePackages, built \in BOOLEAN :
        LET hash == GetPackageHash(packages) IN
        /\ container_names' =
               IF name \notin Range(container_names) /\ built /\ hash \in DOMAIN containers
               THEN [c \in DOMAIN container_names \cup {containers[hash]} |->
                        IF c = containers[hash] THEN name ELSE container_names[c]]
               ELSE container_names
        /\ responses' = Append(responses,
               HandlerResponse("create", 500, 0, "exception", "absent"))
    /\ UNCHANGED <<docker, containers, web_service_containers, thr, logs, destroyed>>
    /\ UNCHANGED <<digestVars, serviceVars, engineVars>>

\* a delete_container that would answer 200 for an id it does not track
\* (the idempotent variant; the code raises instead)
DeleteContainerIdempotent ==
    /\ nreq < MaxRequests
    /\ nreq' = nreq + 1
    /\ \E c \in Ids \ FreshIds :
        /\ docker' = [docker EXCEPT ![c] =
                        IF c \in Range(containers) /\ IsRunning(c)
                        THEN RemovedSandbox ELSE @]
        /\ containers' = IF c \in Range(containers) /\ IsRunning(c)
                         THEN Evict(containers, c) ELSE containers
        /\ container_names' = IF c \in Range(containers) /\ IsRunning(c)
                THEN [x \in DOMAIN container_names \ {c} |-> container_names[x]]
                ELSE container_names
        /\ destroyed' = IF c \in Range(containers) /\ IsRunning(c)
                        THEN destroyed \cup {c} ELSE destroyed
        /\ responses' = Append(responses,
                HandlerResponse("delete", 200, c, "ok", "absent"))
    /\ UNCHANGED <<web_service_containers, thr, logs>>
    /\ UNCHANGED <<digestVars, serviceVars, engineVars>>

\* delete_container (lines 147-167): only ids in the reuse map are destroyed;
\* for any other id HTTPException(404) is raised inside the try and answered
\* as 500
DeleteContainer ==
    /\ nreq < MaxRequests
    /\ nreq' = nreq + 1
    /\ \E c \in Ids \ FreshIds :
        IF c \in Range(containers) /\ IsRunning(c)
        THEN /\ docker' = [docker EXCEPT ![c] = RemovedSandbox]
             /\ containers' = Evict(containers, c)
             /\ container_names' =
                    [x \in DOMAIN container_names \ {c} |-> container_names[x]]
             /\ destroyed' = destroyed \cup {c}
             /\ responses' = Append(responses,
                    HandlerResponse("delete", 200, c, "ok", "absent"))
        ELSE /\ responses' = Append(responses,
                    HandlerResponse("delete", 500, c, "exception", "absent"))
             /\ UNCHANGED <<docker, containers, container_names, destroyed>>
    /\ UNCHANGED <<web_service_containers, thr, logs>>
    /\ UNCHANGED <<digestVars, serviceVars, engineVars>>

\* cleanup_all (lines 169-179) with CodeExecutor.cleanup (766-775): docker rm -f
\* for the values of the reuse map, then both maps and the names are cleared
CleanupAll ==
    /\ nreq < MaxRequests
    /\ nreq' = nreq + 1
    /\ docker' = [c \in Ids |-> IF c \in Range(containers) THEN RemovedSandbox
                                ELSE docker[c]]
    /\ destroyed' = destroyed \cup Range(containers)
    /\ containers' = EmptyMap
    /\ web_service_containers' = EmptyMap
    /\ container_names' = EmptyMap
    /\ responses' = Append(responses, HandlerResponse("cleanup", 200, 0, "ok", "absent"))
    /\ UNCHANGED <<thr, logs>>
    /\ UNCHANGED <<digestVars, serviceVars, engineVars>>

\* execute_code of routers/execution.py with container_id (lines 115-228): the
\* run is joined for timeout seconds; on expiry pkill is sent, the sandbox is
\* kept, the row's status is error and the response has timed_out = true
ExecuteBound ==
    /\ nreq < MaxRequests
    /\ nreq' = nreq + 1
    /\ \E c \in Ids \ FreshIds :
        IF c \in Range(containers) /\ IsRunning(c)
        THEN \E outcome \in {"ok", "error", "timeout"} :
             /\ logs' = Append(logs, [rid |-> nreq + 1, op |-> "execute",
                            status |-> IF outcome = "ok" THEN "success" ELSE "error",
                            container_id |-> c])
             /\ responses' = Append(responses,
                    HandlerResponse("execute", 200, c, outcome,
                        IF outcome = "timeout" THEN "true" ELSE "false"))
        ELSE /\ responses' = Append(responses,
                    HandlerResponse("execute", 404, c, "not_found", "absent"))
             /\ UNCHANGED logs
    /\ UNCHANGED <<docker, containers, web_service_containers, container_names,
                   thr, destroyed>>
    /\ UNCHANGED <<digestVars, serviceVars, engineVars>>

(***************************************************************************)
(* The sandbox manager: specification.                                     *)
(***************************************************************************)
DigestIdle ==
    /\ pkgA = <<>> /\ pkgB = <<>> /\ hashA = None /\ hashB = None

ServicesIdle ==
    /\ services = EmptyMap
    /\ service_threads = {}
    /\ running_services = {}
    /\ monitors = EmptyMap
    /\ loop = 0
    /\ stopped_by_request = {}

WebhooksIdle ==
    /\ webhook_jobs = EmptyMap /\ webhook_containers = EmptyMap /\ webhook_logs = <<>>

\* startup_event has run: the migration completed and no start failed
Booted == [done |-> TRUE, migrated |-> TRUE, failed |-> {}]

CatalogIdle ==
    /\ service_names = EmptyMap /\ auto_start = EmptyMap /\ started_up = Booted

JobsIdle ==
    /\ scheduled_jobs = EmptyMap /\ schedule = {}

VaultIdle ==
    /\ vault = EmptyMap /\ launches = <<>>

\* no request has reached the reverse proxy
NoRequest == [type |-> None, id |-> None, path |-> <<>>, rest |-> <<>>]

ProxyIdle ==
    /\ proxy_request = NoRequest /\ proxy_target = <<>>

\* nothing has been executed and no user process is alive
ExecIdle ==
    /\ results = <<>> /\ processes = [c \in Ids |-> 0]

\* no scheduled job has fired
CronIdle ==
    /\ job_logs = <<>> /\ last_run = [j \in 1..MaxJobs |-> 0]
    /\ cron_containers = EmptyMap /\ fired = <<>>

\* no WebSocket has been opened
NoRelay ==
    [phase |-> "idle", client |-> "none", upstream |-> "none", c2t |-> "off",
     t2c |-> "off", from_client |-> <<>>, from_upstream |-> <<>>,
     to_upstream |-> <<>>, to_client |-> <<>>]

RelayIdle == relay = NoRelay

\* no request is being proxied
NoFetch ==
    [phase |-> "idle", method |-> "", url |-> 0, attempt |-> 0, retry_delay |-> 0,
     tried |-> <<>>, slept |-> <<>>, code |-> 0]

FetchIdle == fetch = NoFetch

\* no web service is registered and nothing has been routed
NoRoute ==
    [seg |-> "", rest |-> <<>>, fallback |-> FALSE, code |-> 0, service |-> "",
     type |-> "", short |-> "", upstream_path |-> <<>>, registry |-> <<>>]

RouteIdle == registry = <<>> /\ route = NoRoute

\* nobody builds, Dockerfile.temp does not exist and only the base image does
NoBuilder == [pc |-> "idle", packages |-> <<>>, result |-> ""]
NoFile == [exists |-> FALSE, packages |-> <<>>]

BuildIdle ==
    /\ builders = [t \in 1..NumThreads |-> NoBuilder]
    /\ dockerfile = NoFile
    /\ images = [x \in {} |-> <<>>]

\* no web service has been started
NotStarted ==
    [started |-> FALSE, exec_ok |-> FALSE, process |-> FALSE, port |-> FALSE,
     success |-> FALSE]

StartIdle == web_starts = [c \in Ids |-> NotStarted]

\* _detect_web_service has not been called
NotDetected == [code |-> {}, packages |-> <<>>, internal_port |-> 0, type |-> ""]

DetectIdle == detected = NotDetected

OtherIdle ==
    /\ CronIdle /\ RelayIdle /\ FetchIdle /\ RouteIdle /\ BuildIdle /\ StartIdle
    /\ DetectIdle

ManagerInit ==
    /\ docker = [c \in Ids |-> AbsentSandbox]
    /\ containers = EmptyMap
    /\ web_service_containers = EmptyMap
    /\ container_names = EmptyMap
    /\ thr = [t \in Threads |-> IdleThread]
    /\ logs = <<>>
    /\ responses = <<>>
    /\ destroyed = {}
    /\ nreq = 0

Init ==
    /\ ManagerInit /\ DigestIdle /\ ServicesIdle
    /\ WebhooksIdle /\ CatalogIdle /\ JobsIdle /\ VaultIdle /\ ProxyIdle /\ ExecIdle /\ OtherIdle
    /\ api_responses = <<>>

Next ==
    \/ \E t \in Threads : ExecuteBegin(t)
    \/ \E t \in Threads : BuildImage(t)
    \/ \E t \in Threads : RunReusable(t)
    \/ \E t \in Threads : ExecOneShot(t)
    \/ \E t \in Threads : AllocateExternalPort(t)
    \/ \E t \in Threads : RunWebSandbox(t)
    \/ \E t \in Threads : SaveWebCode(t)
    \/ \E t \in Threads : LaunchWebService(t)
    \/ CreateContainer
    \/ DeleteContainer
    \/ CleanupAll
    \/ ExecuteBound

Spec == Init /\ [][Next]_vars

\* The handlers of routers/ are `async def` and call the executor without
\* awaiting: the event loop runs one request from its first step to its answer
\* before it takes the next.  A step is allowed when the request in progress,
\* if any, is the one that moves, and at most one is in progress afterwards.
OneAtATime ==
    /\ \A t \in Threads : thr[t].pc # "idle" => thr'[t] # thr[t]
    /\ Cardinality({t \in Threads : thr'[t].pc # "idle"}) <= 1

NextSerial ==
    \/ \E t \in Threads : ExecuteBegin(t) /\ OneAtATime
    \/ \E t \in Threads : BuildImage(t) /\ OneAtATime
    \/ \E t \in Threads : RunReusable(t) /\ OneAtATime
    \/ \E t \in Threads : ExecOneShot(t) /\ OneAtATime
    \/ \E t \in Threads : AllocateExternalPort(t) /\ OneAtATime
    \/ \E t \in Threads : RunWebSandbox(t) /\ OneAtATime
    \/ \E t \in Threads : SaveWebCode(t) /\ OneAtATime
    \/ \E t \in Threads : LaunchWebService(t) /\ OneAtATime
    \/ CreateContainer /\ OneAtATime
    \/ DeleteContainer /\ OneAtATime
    \/ CleanupAll /\ OneAtATime
    \/ ExecuteBound /\ OneAtATime

SpecSerial == Init /\ [][NextSerial]_vars

(***************************************************************************)
(* Claims about the sandbox manager.                                       *)
(***************************************************************************)
\* a step that answers a request of kind op
Answers(op) ==
    /\ Len(responses') = Len(responses) + 1
    /\ responses'[Len(responses')].op = op

\* C1: under any interleaving of non-web executions, each digest has at most
\* one reusable sandbox, the one the reuse map tracks, so that later executions
\* of the digest run in it: every running reusable sandbox is the tracked one
C1_OneReusablePerDigest ==
    \A c \in Ids :
        (IsRunning(c) /\ ~docker[c].web) =>
            /\ docker[c].hash \in DOMAIN containers
            /\ containers[docker[c].hash] = c

\* the live web services: entries of the web-service map whose sandbox runs
LiveWebServices == {c \in DOMAIN web_service_containers : IsRunning(c)}

\* C2 (first half): every live web service has an external port in
\* [9000, 9999] and no two live web services share one
C2_LivePortsDistinct ==
    /\ \A c \in LiveWebServices :
        web_service_containers[c].external_port \in PortLo..PortHi
    /\ \A c, d \in LiveWebServices :
        c # d => web_service_containers[c].external_port
                    # web_service_containers[d].external_port

\* C2: live web services have distinct external ports in [9000, 9999], and a
\* port that a launch has allocated stays reserved until its sandbox publishes
\* it: no allocation can return it meanwhile
C2_PortsReserved ==
    /\ C2_LivePortsDistinct
    /\ \A t \in Threads :
        thr[t].pc = "wrun" => thr[t].eport \notin AllocatePort

\* sandbox ids that an execution result handed to a caller
ReturnedIds ==
    {responses[i].container_id :
        i \in {j \in DOMAIN responses :
                 /\ responses[j].op = "execute"
                 /\ responses[j].code = 200
                 /\ responses[j].container_id # 0}}

\* C3: every sandbox id returned in an execution result or kept in the reuse
\* map or the web-service map refers to a running sandbox, unless a destroy has
\* returned for it
C3_ReturnedIdsLive ==
    \A c \in ReturnedIds \cup Range(containers) \cup DOMAIN web_service_containers :
        c \notin destroyed => IsRunning(c)

\* C4: an execution that exceeded its timeout is answered without an HTTP
\* error, with success = false and timed_out = true, and wrote exactly one
\* ExecutionLog row, whose status is "timeout"
C4_TimeoutReported ==
    \A i \in DOMAIN responses :
        responses[i].outcome = "timeout" =>
            /\ responses[i].code = 200
            /\ responses[i].success = FALSE
            /\ responses[i].timed_out = "true"
            /\ Cardinality({j \in DOMAIN logs : logs[j].rid = responses[i].rid}) = 1
            /\ \A j \in DOMAIN logs :
                logs[j].rid = responses[i].rid => logs[j].status = "timeout"

\* C7: once a DELETE for a sandbox of the manager (reusable or web service) has
\* been answered, the sandbox is not running and its id is in none of the reuse
\* map, the web-service map and the name map
C7_DestroyRemoves ==
    \A i \in DOMAIN responses :
        responses[i].op = "delete" =>
            LET c == responses[i].container_id IN
            /\ ~IsRunning(c)
            /\ c \notin Range(containers)
            /\ c \notin DOMAIN web_service_containers
            /\ c \notin DOMAIN container_names

\* the request that answers now repeats a destroy that has already returned
SecondDestroy ==
    /\ Answers("delete")
    /\ responses'[Len(responses')].container_id \in destroyed

C9_CleanupLeavesNothing ==
    [][Answers("cleanup") =>
        /\ \A c \in Ids : docker'[c].state # "running"
        /\ containers' = EmptyMap
        /\ web_service_containers' = EmptyMap]_vars

(***************************************************************************)
(* The image digest as a pure function: two package lists are drawn and    *)
(* _get_package_hash is applied to each.                                   *)
(***************************************************************************)
InitDigest ==
    /\ pkgA \in PkgLists
    /\ pkgB \in PkgLists
    /\ hashA = None
    /\ hashB = None
    /\ ManagerInit
    /\ ServicesIdle
    /\ WebhooksIdle /\ CatalogIdle /\ JobsIdle /\ VaultIdle /\ ProxyIdle /\ ExecIdle /\ OtherIdle
    /\ api_responses = <<>>

ComputeHashes ==
    /\ hashA = None
    /\ hashA' = GetPackageHash(pkgA)
    /\ hashB' = GetPackageHash(pkgB)
    /\ UNCHANGED <<pkgA, pkgB, managerVars, serviceVars, engineVars>>

NextDigest == ComputeHashes

SpecDigest == InitDigest /\ [][NextDigest]_vars

\* C10: two package lists that are equal after sorting and removing duplicates
\* (the same package set, in any order and with any repetition) get the same
\* digest
C10_SameSetSameDigest ==
    (hashA # None /\ PackageSet(pkgA) = PackageSet(pkgB)) => hashA = hashB

\* order alone never changes the digest: lists that are permutations of each
\* other (equal after sorting) get the same digest
C10_SameSortedSameDigest ==
    (hashA # None /\ Sorted(pkgA) = Sorted(pkgB)) => hashA = hashB

(***************************************************************************)
(* services/service_manager.py: the ServiceManager and the control         *)
(* endpoints of routers/services.py.                                       *)
(***************************************************************************)
ServiceIds == 1..NumServices

RestartPolicies == {"always", "never", "on-failure"}

\* names of the rows the store holds, all different (create and update refuse
\* a name that is taken)
ServiceNameList == [s \in ServiceIds |-> s]

\* a row as create_persistent_service stores it (routers/services.py 23-34)
NewService(policy) ==
    [status |-> "stopped", restart_policy |-> policy, is_active |-> TRUE,
     last_restart |-> FALSE, process_id |-> None]

InitService ==
    /\ services \in [ServiceIds -> {NewService(p) : p \in RestartPolicies}]
    /\ service_threads = {}
    /\ running_services = {}
    /\ monitors = [s \in ServiceIds |-> 0]
    /\ loop = 0
    /\ stopped_by_request = {}
    /\ service_names = [s \in ServiceIds |-> ServiceNameList[s]]
    /\ auto_start = [s \in ServiceIds |-> TRUE]
    /\ started_up = Booted
    /\ ManagerInit
    /\ DigestIdle
    /\ WebhooksIdle /\ JobsIdle /\ VaultIdle /\ ProxyIdle /\ ExecIdle /\ OtherIdle
    /\ api_responses = <<>>

\* start_service (lines 18-43): nothing to do when the id is in
\* running_services; otherwise status starting, a new _run_service thread, and
\* the thread recorded in service_threads
StartService(s) ==
    IF s \in running_services
    THEN UNCHANGED <<services, monitors, service_threads>>
    ELSE /\ services' = [services EXCEPT ![s].status = "starting"]
         /\ monitors' = [monitors EXCEPT ![s] = @ + 1]
         /\ service_threads' = service_threads \cup {s}

\* stop_service (lines 45-82): status stopped, process_id cleared, the entries
\* of running_services and service_threads dropped; a _run_service thread that
\* is already running is not told and keeps going
StopService(s) ==
    /\ services' = [services EXCEPT ![s].status = "stopped", ![s].process_id = None]
    /\ running_services' = running_services \ {s}
    /\ service_threads' = service_threads \ {s}

\* POST /services/{id}/start
StartRequest(s) ==
    /\ loop = 0
    /\ monitors[s] < MaxMonitors
    /\ StartService(s)
    /\ stopped_by_request' = stopped_by_request \ {s}
    /\ UNCHANGED <<running_services, loop, managerVars, digestVars, engineVars>>

\* POST /services/{id}/stop
StopRequest(s) ==
    /\ loop = 0
    /\ StopService(s)
    /\ stopped_by_request' = stopped_by_request \cup {s}
    /\ UNCHANGED <<monitors, loop, managerVars, digestVars, engineVars>>

\* POST /services/{id}/restart, restart_service (lines 84-88): stop_service,
\* then time.sleep(1), during which the handler holds the event loop
RestartRequestStop(s) ==
    /\ loop = 0
    /\ monitors[s] < MaxMonitors
    /\ StopService(s)
    /\ loop' = s
    /\ stopped_by_request' = stopped_by_request \ {s}
    /\ UNCHANGED <<monitors, managerVars, digestVars, engineVars>>

\* ... then start_service
RestartRequestStart ==
    /\ loop # 0
    /\ StartService(loop)
    /\ loop' = 0
    /\ UNCHANGED <<running_services, stopped_by_request, managerVars, digestVars, engineVars>>

\* _run_service (lines 90-235).  The thread makes its own CodeExecutor(), whose
\* reuse map is empty, so it always takes the branch that creates a sandbox:
\* _build_image, then docker_client.containers.run with
\* docker.types.Ulimit(...).  The module never imports docker, so that
\* expression raises NameError (or _build_image raised before it); the handler
\* at 223-233 sets status error and clears process_id.  The launch of the user
\* code (161-184), the monitor loop (186-201) and the restart policy (215-221)
\* are never reached.
RunService(s) ==
    /\ monitors[s] > 0
    /\ monitors' = [monitors EXCEPT ![s] = @ - 1]
    /\ services' = [services EXCEPT ![s].status = "error", ![s].process_id = None]
    /\ UNCHANGED <<service_threads, running_services, loop, stopped_by_request,
                   managerVars, digestVars, engineVars>>

NextService ==
    \/ \E s \in ServiceIds : StartRequest(s)
    \/ \E s \in ServiceIds : StopRequest(s)
    \/ \E s \in ServiceIds : RestartRequestStop(s)
    \/ RestartRequestStart
    \/ \E s \in ServiceIds : RunService(s)

SpecService == InitService /\ [][NextService]_vars

\* every started thread runs: the operating system schedules it
FairSpecService ==
    SpecService /\ \A s \in ServiceIds : WF_vars(RunService(s))

\* C5: a service with restart_policy always and is_active = true that is
\* started runs, its natural exit is detected, last_restart is set and the
\* service is running again: from starting it always leads to a state with
\* last_restart set and status running
C5_AlwaysComesBack ==
    \A s \in ServiceIds :
        (services[s].status = "starting"
            /\ services[s].restart_policy = "always" /\ services[s].is_active)
        ~> (services[s].status = "running" /\ services[s].last_restart)

\* C6: after an explicit stop, and until the next explicit start or restart
\* request, the service is stopped, its runtime handle is released and no
\* thread of it is recorded
C6_StoppedStaysStopped ==
    \A s \in stopped_by_request :
        /\ services[s].status = "stopped"
        /\ services[s].process_id = None
        /\ s \notin running_services
        /\ s \notin service_threads

(***************************************************************************)
(* The hardening profile of a sandbox.                                     *)
(***************************************************************************)
\* what tests/test_container_security.py asserts of a created sandbox
HardeningProfile(o) ==
    /\ o.memory_mb > 0 /\ o.memory_mb <= 512
    /\ o.cpu_quota
    /\ o.pids_limit
    /\ o.read_only
    /\ o.cap_drop_all
    /\ o.cap_add \subseteq {"SETUID", "SETGID"}
    /\ o.no_new_privileges
    /\ o.seccomp
    /\ o.user \notin {"", "root"}

\* C11: every sandbox the engine has created and that is running carries the
\* hardening profile (memory cap of at most 512 MiB, CPU quota, PID limit,
\* read-only root, all capabilities dropped, no-new-privileges, seccomp,
\* non-root user)
C11_EverySandboxHardened ==
    \A c \in Ids : IsRunning(c) => HardeningProfile(docker[c].opts)

(***************************************************************************)
(* routers/webhooks.py and routers/webhook_execution.py.                   *)
(***************************************************************************)
\* A text is a sequence of tokens; "/" "{" "}" "[" "]" and the quote are tokens
\* of their own, every other token stands for characters that are none of them.
Slash == "/"

\* Python's None where a JSON value is expected
NoValue == [type |-> "none", items |-> <<>>]

\* JSON values user code can leave in response_data
JsonValues ==
    {[type |-> "object", items |-> <<"m">>], [type |-> "object", items |-> <<>>],
     [type |-> "array", items |-> <<"1">>]}

\* json.dumps: one line of text
JsonDumps(v) ==
    CASE v.type = "object" -> <<"{">> \o v.items \o <<"}">>
      [] v.type = "array" -> <<"[">> \o v.items \o <<"]">>
      [] OTHER -> <<"\"">> \o v.items \o <<"\"">>

\* line.startswith('{') and line.endswith('}')  (line 174)
IsObjectLine(line) ==
    Len(line) >= 2 /\ line[1] = "{" /\ line[Len(line)] = "}"

\* json.loads of such a line
JsonLoads(line) == [type |-> "object", items |-> SubSeq(line, 2, Len(line) - 1)]

\* Python truth of a value: empty containers and the empty string are false
Truthy(v) == v.items # <<>>

\* the wrapper's default (line 100) and what it stores when user code raises
\* (line 106)
DefaultResponse == [type |-> "object", items |-> <<"message", "timestamp">>]
ErrorResponse == [type |-> "object", items |-> <<"error", "timestamp">>]

\* what the user code of a job does: the value it leaves in response_data
\* (None when it assigns nothing) and how it ends
UserCodes ==
    {[assigns |-> v, ends |-> "return"] : v \in JsonValues}
        \cup {[assigns |-> NoValue, ends |-> e] : e \in {"return", "raise", "exit"}}

\* no user code (an answer that ran none)
NoCode == [assigns |-> NoValue, ends |-> None]

\* the wrapper program (lines 90-111) run by `python -c`: exit code and the
\* captured output, line by line.  An exception of the user code is caught,
\* reported on stderr and stored; sys.exit ends the process before the print.
RunWrapper(code) ==
    CASE code.ends = "return" ->
            [exit_code |-> 0,
             output |-> <<JsonDumps(IF code.assigns = NoValue THEN DefaultResponse
                                    ELSE code.assigns)>>]
      [] code.ends = "raise" ->
            [exit_code |-> 0,
             output |-> <<<<"Error in webhook code">>, JsonDumps(ErrorResponse)>>]
      [] OTHER -> [exit_code |-> 1, output |-> <<<<"exit">>>>]

\* lines 166-186: the last line of the output that looks like an object, if the
\* run succeeded; the fallback object when nothing (or something false) came
\* out of that
FallbackResponse(success) ==
    [type |-> "object",
     items |-> <<"success", IF success THEN "true" ELSE "false", "output", "error">>]

ParseResponse(success, output) ==
    LET hits == {i \in DOMAIN output : IsObjectLine(output[i])}
        last == CHOOSE i \in hits : \A j \in hits : j <= i
        found == IF success /\ hits # {} THEN JsonLoads(output[last]) ELSE NoValue
    IN  IF Truthy(found) THEN found ELSE FallbackResponse(success)

\* the request as the handler sees it (lines 56-83): a body is read only for
\* POST, PUT and PATCH
WebhookRequests == {[method |-> "POST", body |-> "x"], [method |-> "GET", body |-> "x"]}

RequestData(r, endpoint) ==
    [method |-> r.method,
     body |-> IF r.method \in {"POST", "PUT", "PATCH"} THEN r.body ELSE "null",
     endpoint |-> endpoint]

\* json.dumps(request_data)
SerialiseRequest(d) == <<"{", d.method, d.body>> \o d.endpoint \o <<"}">>

\* docker_client.containers.run(image_tag, detach, tty, mem_limit="512m",
\* cpu_period=100000, cpu_quota=50000)  (lines 130-137)
WebhookRunOptions ==
    [NoOptions EXCEPT !.memory_mb = 512, !.cpu_quota = TRUE, !.user = "codeuser"]

EndpointInputs == {<<"hook">>, <<Slash, "hook">>, <<Slash, "b">>}

\* container_id of a job: none, or the id of a sandbox
WebhookBindings == {0, 1}

\* packages of a job
WebhookPackages == {<<>>}

\* if not request.endpoint.startswith('/'): request.endpoint = '/' + ...
NormaliseEndpoint(e) == IF e # <<>> /\ e[1] = Slash THEN e ELSE <<Slash>> \o e

\* the id the store gives a new row
NextRowId(rows) ==
    IF DOMAIN rows = {} THEN 1
    ELSE (CHOOSE i \in DOMAIN rows : \A j \in DOMAIN rows : j <= i) + 1

ApiResponse(op, code, why, key, body) ==
    [op |-> op, code |-> code, why |-> why, key |-> key, body |-> body,
     request_data |-> <<>>, user_code |-> NoCode]

Answer(r) == api_responses' = Append(api_responses, r)

WebhookRow(endpoint, code, cid, packages) ==
    [endpoint |-> endpoint, code |-> code, container_id |-> cid,
     packages |-> packages, last_triggered |-> 0, is_active |-> TRUE]

EndpointTaken(e, except) ==
    \E j \in DOMAIN webhook_jobs \ {except} : webhook_jobs[j].endpoint = e

\* create_webhook_job (routers/webhooks.py 37-81).  The HTTPException(400) for
\* a taken endpoint is raised inside the try and leaves as 500.
CreateWebhookJob ==
    /\ Len(api_responses) < MaxCalls
    /\ \E raw \in EndpointInputs, code \in UserCodes, cid \in WebhookBindings,
          packages \in WebhookPackages :
        LET e == NormaliseEndpoint(raw)
            j == NextRowId(webhook_jobs)
        IN  IF EndpointTaken(e, 0)
            THEN /\ Answer(ApiResponse("create_webhook", 500, "conflict", 0, NoValue))
                 /\ UNCHANGED webhook_jobs
            ELSE /\ j <= MaxJobs
                 /\ webhook_jobs' =
                        [x \in DOMAIN webhook_jobs \cup {j} |->
                            IF x = j THEN WebhookRow(e, code, cid, packages)
                            ELSE webhook_jobs[x]]
                 /\ Answer(ApiResponse("create_webhook", 200, "ok", j, NoValue))
    /\ UNCHANGED <<webhook_containers, webhook_logs, catalogVars, jobVars, vaultVars,
                   proxyVars, execVars, otherVars, managerVars, digestVars, serviceVars>>

\* update_webhook_job (124-171): 404 and 400 are raised inside the try and
\* leave as 500; last_triggered and is_active are not touched
UpdateWebhookJob ==
    /\ Len(api_responses) < MaxCalls
    /\ \E j \in 1..MaxJobs, raw \in EndpointInputs, code \in UserCodes,
          cid \in WebhookBindings, packages \in WebhookPackages :
        LET e == NormaliseEndpoint(raw) IN
        IF j \notin DOMAIN webhook_jobs
        THEN /\ Answer(ApiResponse("update_webhook", 500, "unknown", j, NoValue))
             /\ UNCHANGED webhook_jobs
        ELSE IF EndpointTaken(e, j)
        THEN /\ Answer(ApiResponse("update_webhook", 500, "conflict", j, NoValue))
             /\ UNCHANGED webhook_jobs
        ELSE /\ webhook_jobs' = [webhook_jobs EXCEPT
                    ![j].endpoint = e, ![j].code = code, ![j].container_id = cid,
                    ![j].packages = packages]
             /\ Answer(ApiResponse("update_webhook", 200, "ok", j, NoValue))
    /\ UNCHANGED <<webhook_containers, webhook_logs, catalogVars, jobVars, vaultVars,
                   proxyVars, execVars, otherVars, managerVars, digestVars, serviceVars>>

\* delete_webhook_job (173-186)
DeleteWebhookJob ==
    /\ Len(api_responses) < MaxCalls
    /\ \E j \in 1..MaxJobs :
        IF j \notin DOMAIN webhook_jobs
        THEN /\ Answer(ApiResponse("delete_webhook", 500, "unknown", j, NoValue))
             /\ UNCHANGED webhook_jobs
        ELSE /\ webhook_jobs' = [x \in DOMAIN webhook_jobs \ {j} |-> webhook_jobs[x]]
             /\ Answer(ApiResponse("delete_webhook", 200, "ok", j, NoValue))
    /\ UNCHANGED <<webhook_containers, webhook_logs, catalogVars, jobVars, vaultVars,
                   proxyVars, execVars, otherVars, managerVars, digestVars, serviceVars>>

WebhookAnswer(code, why, j, body, rd, user_code) ==
    [op |-> "webhook", code |-> code, why |-> why, key |-> j, body |-> body,
     request_data |-> rd, user_code |-> user_code]

WebhookLog(j, status, rd, response_data, call) ==
    [webhook_job_id |-> j, status |-> status, request_data |-> rd,
     response_data |-> response_data, call |-> call]

\* execute_webhook (routers/webhook_execution.py 36-230), one request from its
\* first line to its answer.  fault is what the runtime does to it: nothing, or
\* an exception out of _build_image, containers.run, or containers.get/exec_run.
ExecuteWebhook ==
    /\ Len(api_responses) < MaxCalls
    /\ \E raw \in EndpointInputs, r \in WebhookRequests,
          fault \in {"none", "build", "run", "exec"} :
        LET endpoint == NormaliseEndpoint(raw)
            call == Len(api_responses) + 1
            active == {j \in DOMAIN webhook_jobs :
                          /\ webhook_jobs[j].endpoint = endpoint
                          /\ webhook_jobs[j].is_active}
        IN
        IF active = {}
        THEN \* line 53: raised as 404 and passed on by `except HTTPException`
             /\ Answer(WebhookAnswer(404, "unknown", 0, NoValue, <<>>, NoCode))
             /\ UNCHANGED <<webhook_jobs, webhook_containers, webhook_logs, docker>>
        ELSE
        LET j == CHOOSE x \in active : TRUE
            job == webhook_jobs[j]
            rd == SerialiseRequest(RequestData(r, endpoint))
            h == GetPackageHash(job.packages)
            bound == job.container_id # 0
            create == ~bound /\ fault # "build" /\ h \notin DOMAIN webhook_containers
            res == RunWrapper(job.code)
            success == res.exit_code = 0
            body == ParseResponse(success, res.output)
        IN
        IF bound /\ job.container_id \notin Range(webhook_containers)
        THEN \* line 117: HTTPException(500), passed on; nothing is recorded
             /\ Answer(WebhookAnswer(500, "container", j, NoValue, rd, job.code))
             /\ UNCHANGED <<webhook_jobs, webhook_containers, webhook_logs, docker>>
        ELSE
             /\ create => FreshIds # {}
             /\ IF create /\ fault # "run"
                THEN /\ docker' = [docker EXCEPT ![NewId] =
                            [state |-> "running", hash |-> h, port |-> 0,
                             web |-> FALSE, opts |-> WebhookRunOptions]]
                     /\ webhook_containers' =
                            [x \in DOMAIN webhook_containers \cup {h} |->
                                IF x = h THEN NewId ELSE webhook_containers[x]]
                ELSE UNCHANGED <<docker, webhook_containers>>
             /\ IF fault = "exec" \/ (~bound /\ fault = "build") \/ (create /\ fault = "run")
                THEN \* lines 216-230: an error row, 500; last_triggered is not set
                     /\ webhook_logs' = Append(webhook_logs,
                            WebhookLog(j, "error", rd, <<>>, call))
                     /\ Answer(WebhookAnswer(500, "fault", j, NoValue, rd, job.code))
                     /\ UNCHANGED webhook_jobs
                ELSE \* lines 157-212
                     /\ webhook_jobs' = [webhook_jobs EXCEPT ![j].last_triggered = call]
                     /\ webhook_logs' = Append(webhook_logs,
                            WebhookLog(j, IF success THEN "success" ELSE "error", rd,
                                       IF success THEN JsonDumps(body) ELSE <<>>, call))
                     /\ Answer(WebhookAnswer(IF success THEN 200 ELSE 500, "ran", j,
                                             body, rd, job.code))
    /\ UNCHANGED <<containers, web_service_containers, container_names, thr, logs,
                   responses, destroyed, nreq>>
    /\ UNCHANGED <<catalogVars, jobVars, vaultVars, proxyVars, execVars, otherVars, digestVars, serviceVars>>

NextWebhook ==
    \/ CreateWebhookJob
    \/ UpdateWebhookJob
    \/ DeleteWebhookJob
    \/ ExecuteWebhook

SpecWebhook == Init /\ [][NextWebhook]_vars

(***************************************************************************)
(* Claims about webhooks.                                                  *)
(***************************************************************************)
LastAnswer == api_responses'[Len(api_responses')]

\* a step that answers an invocation of an active webhook endpoint
WebhookInvoked ==
    /\ Len(api_responses') = Len(api_responses) + 1
    /\ LastAnswer.op = "webhook"
    /\ LastAnswer.key # 0

\* C12: every invocation of an active webhook endpoint, whatever its outcome,
\* appends one ExecutionLog row for that job whose request_data is the
\* serialised request, and sets the job's last_triggered to this invocation
C12_InvocationLogged ==
    [][WebhookInvoked =>
        /\ Len(webhook_logs') = Len(webhook_logs) + 1
        /\ webhook_logs'[Len(webhook_logs')].webhook_job_id = LastAnswer.key
        /\ webhook_logs'[Len(webhook_logs')].request_data = LastAnswer.request_data
        /\ webhook_jobs'[LastAnswer.key].last_triggered = Len(api_responses')]_vars

\* C13: when the user code of a webhook fails (it raises, which the wrapper
\* catches and stores as {error, timestamp}, or the wrapper exits non-zero),
\* the caller receives status 500
C13_FailureAnswers500 ==
    \A i \in DOMAIN api_responses :
        LET r == api_responses[i] IN
        (r.op = "webhook" /\ r.why = "ran" /\ r.user_code.ends \in {"raise", "exit"})
            => r.code = 500

\* C14: on a successful webhook run the response body is the value the user
\* code left in response_data, whatever JSON value that is, and the log row's
\* response_data is the serialised body
C14_BodyIsResponseData ==
    \A i \in DOMAIN api_responses :
        LET r == api_responses[i] IN
        (r.op = "webhook" /\ r.why = "ran" /\ r.user_code.ends = "return")
            => /\ r.code = 200
               /\ r.body = (IF r.user_code.assigns = NoValue THEN DefaultResponse
                            ELSE r.user_code.assigns)
               /\ \E k \in DOMAIN webhook_logs :
                    /\ webhook_logs[k].call = i
                    /\ webhook_logs[k].response_data = JsonDumps(r.body)

\* C14, as far as it holds: for an object with at least one member
C14_ObjectBodyIsResponseData ==
    \A i \in DOMAIN api_responses :
        LET r == api_responses[i] IN
        (r.op = "webhook" /\ r.why = "ran" /\ r.user_code.ends = "return"
            /\ r.user_code.assigns.type \in {"object", "none"}
            /\ (r.user_code.assigns.type = "object" => Truthy(r.user_code.assigns)))
            => /\ r.code = 200
               /\ r.body = (IF r.user_code.assigns = NoValue THEN DefaultResponse
                            ELSE r.user_code.assigns)
               /\ \E k \in DOMAIN webhook_logs :
                    /\ webhook_logs[k].call = i
                    /\ webhook_logs[k].response_data = JsonDumps(r.body)

(***************************************************************************)
(* routers/services.py: the PersistentService rows, and the store as the   *)
(* webhook and service endpoints keep it.                                  *)
(***************************************************************************)
StoreCall(op, code, why, key) == Answer(ApiResponse(op, code, why, key, NoValue))

NameTaken(n, except) ==
    \E s \in DOMAIN service_names \ {except} : service_names[s] = n

AddRow(rows, k, v) == [x \in DOMAIN rows \cup {k} |-> IF x = k THEN v ELSE rows[x]]

DropRow(rows, k) == [x \in DOMAIN rows \ {k} |-> rows[x]]

\* create_persistent_service without the query for the name
CreatePersistentServiceUnchecked ==
    /\ Len(api_responses) < MaxCalls
    /\ \E n \in Names, policy \in RestartPolicies, auto \in BOOLEAN :
        LET s == NextRowId(services) IN
        /\ s <= NumServices
        /\ services' = AddRow(services, s, NewService(policy))
        /\ service_names' = AddRow(service_names, s, n)
        /\ auto_start' = AddRow(auto_start, s, auto)
        /\ StoreCall("create_service", 200, "ok", s)
    /\ UNCHANGED <<service_threads, running_services, monitors, loop,
                   stopped_by_request, started_up, webhookVars, jobVars, vaultVars,
                   proxyVars, execVars, otherVars, managerVars, digestVars>>

\* create_persistent_service (routers/services.py 13-58).  The
\* HTTPException(400) for a taken name is raised inside the try and leaves
\* as 500.
CreatePersistentService ==
    /\ Len(api_responses) < MaxCalls
    /\ \E n \in Names, policy \in RestartPolicies, auto \in BOOLEAN :
        LET s == NextRowId(services) IN
        IF NameTaken(n, 0)
        THEN /\ StoreCall("create_service", 500, "conflict", 0)
             /\ UNCHANGED <<services, service_names, auto_start>>
        ELSE /\ s <= NumServices
             /\ services' = AddRow(services, s, NewService(policy))
             /\ service_names' = AddRow(service_names, s, n)
             /\ auto_start' = AddRow(auto_start, s, auto)
             /\ StoreCall("create_service", 200, "ok", s)
    /\ UNCHANGED <<service_threads, running_services, monitors, loop,
                   stopped_by_request, started_up, webhookVars, jobVars, vaultVars,
                   proxyVars, execVars, otherVars, managerVars, digestVars>>

\* update_persistent_service (107-153): 404 and 400 leave as 500; status is
\* not touched
UpdatePersistentService ==
    /\ Len(api_responses) < MaxCalls
    /\ \E s \in ServiceIds, n \in Names, policy \in RestartPolicies, auto \in BOOLEAN :
        IF s \notin DOMAIN services
        THEN /\ StoreCall("update_service", 500, "unknown", s)
             /\ UNCHANGED <<services, service_names, auto_start>>
        ELSE IF NameTaken(n, s)
        THEN /\ StoreCall("update_service", 500, "conflict", s)
             /\ UNCHANGED <<services, service_names, auto_start>>
        ELSE /\ services' = [services EXCEPT ![s].restart_policy = policy]
             /\ service_names' = [service_names EXCEPT ![s] = n]
             /\ auto_start' = [auto_start EXCEPT ![s] = auto]
             /\ StoreCall("update_service", 200, "ok", s)
    /\ UNCHANGED <<service_threads, running_services, monitors, loop,
                   stopped_by_request, started_up, webhookVars, jobVars, vaultVars,
                   proxyVars, execVars, otherVars, managerVars, digestVars>>

\* delete_persistent_service (155-172): 404 leaves as 500; otherwise
\* stop_service, then the row is deleted
DeletePersistentService ==
    /\ Len(api_responses) < MaxCalls
    /\ \E s \in ServiceIds :
        IF s \notin DOMAIN services
        THEN /\ StoreCall("delete_service", 500, "unknown", s)
             /\ UNCHANGED <<services, service_names, auto_start, running_services,
                            service_threads>>
        ELSE /\ services' = DropRow(services, s)
             /\ service_names' = DropRow(service_names, s)
             /\ auto_start' = DropRow(auto_start, s)
             /\ running_services' = running_services \ {s}
             /\ service_threads' = service_threads \ {s}
             /\ StoreCall("delete_service", 200, "ok", s)
    /\ UNCHANGED <<monitors, loop, stopped_by_request, started_up, webhookVars,
                   jobVars, vaultVars, proxyVars, execVars, otherVars, managerVars, digestVars>>

\* the control endpoints (174-208): start_service, stop_service and
\* restart_service return False for an id with no row, the handler raises
\* HTTPException(404) inside its try and it leaves as 500
ControlService ==
    /\ Len(api_responses) < MaxCalls
    /\ \E s \in ServiceIds, op \in {"start", "stop", "restart"} :
        IF s \notin DOMAIN services
        THEN /\ StoreCall(op, 500, "unknown", s)
             /\ UNCHANGED <<services, monitors, service_threads, running_services>>
        ELSE /\ monitors[s] < MaxMonitors
             /\ StoreCall(op, 200, "ok", s)
             /\ CASE op = "start" ->
                        /\ StartService(s)
                        /\ UNCHANGED running_services
                  [] op = "stop" ->
                        /\ StopService(s)
                        /\ UNCHANGED monitors
                  [] op = "restart" ->
                        /\ services' = [services EXCEPT ![s].status = "starting",
                                                        ![s].process_id = None]
                        /\ running_services' = running_services \ {s}
                        /\ monitors' = [monitors EXCEPT ![s] = @ + 1]
                        /\ service_threads' = service_threads \cup {s}
    /\ UNCHANGED <<loop, stopped_by_request, catalogVars, webhookVars, jobVars,
                   vaultVars, proxyVars, execVars, otherVars, managerVars, digestVars>>

\* _run_service when the row may have been deleted meanwhile (lines 96-98:
\* no row, return)
RunServiceRow ==
    \E s \in ServiceIds :
        /\ monitors[s] > 0
        /\ monitors' = [monitors EXCEPT ![s] = @ - 1]
        /\ services' = IF s \in DOMAIN services
                       THEN [services EXCEPT ![s].status = "error", ![s].process_id = None]
                       ELSE services
        /\ UNCHANGED <<service_threads, running_services, loop, stopped_by_request,
                       managerVars, digestVars, engineVars>>

InitStore ==
    /\ ManagerInit /\ DigestIdle
    /\ services = EmptyMap
    /\ service_threads = {}
    /\ running_services = {}
    /\ monitors = [s \in ServiceIds |-> 0]
    /\ loop = 0
    /\ stopped_by_request = {}
    /\ WebhooksIdle /\ CatalogIdle /\ JobsIdle /\ VaultIdle /\ ProxyIdle /\ ExecIdle /\ OtherIdle
    /\ api_responses = <<>>

NextStore ==
    \/ CreateWebhookJob
    \/ UpdateWebhookJob
    \/ DeleteWebhookJob
    \/ CreatePersistentService
    \/ UpdatePersistentService
    \/ DeletePersistentService
    \/ ControlService
    \/ RunServiceRow

SpecStore == InitStore /\ [][NextStore]_vars

\* C15: no two WebhookJob rows have the same endpoint, every endpoint begins
\* with "/", and no two PersistentService rows have the same name
C15_StoreKeysUnique ==
    /\ \A i, j \in DOMAIN webhook_jobs :
            i # j => webhook_jobs[i].endpoint # webhook_jobs[j].endpoint
    /\ \A j \in DOMAIN webhook_jobs :
            /\ webhook_jobs[j].endpoint # <<>>
            /\ Head(webhook_jobs[j].endpoint) = Slash
    /\ \A s, t \in DOMAIN service_names :
            s # t => service_names[s] # service_names[t]

\* C15 happens: a service row exists, a second create with its name has been
\* answered, and a webhook row exists
C15_Witness ==
    /\ DOMAIN service_names # {}
    /\ DOMAIN webhook_jobs # {}
    /\ \E i \in DOMAIN api_responses :
            /\ api_responses[i].op = "create_service"
            /\ api_responses[i].why = "conflict"

\* C16: a create or update that collides with a taken endpoint or name is
\* answered 400, and a request that names an unknown service, webhook job or
\* webhook endpoint is answered 404
C16_ConflictIs400UnknownIs404 ==
    \A i \in DOMAIN api_responses :
        /\ api_responses[i].why = "conflict" => api_responses[i].code = 400
        /\ api_responses[i].why = "unknown" => api_responses[i].code = 404

(***************************************************************************)
(* Scheduled jobs: routers/jobs.py, the same endpoints in api.py, and      *)
(* scheduler.py.                                                           *)
(***************************************************************************)
\* cron expressions as their whitespace-separated fields
CronInputs == {<<"*", "*", "*", "*", "*">>, <<"*", "*">>}

\* CronTrigger.from_crontab raises ValueError unless there are five fields
CronValid(c) == Len(c) = 5

ScheduledJobRow(cron) == [cron_expression |-> cron, is_active |-> TRUE]

\* schedule_job (scheduler.py 25-40): the existing trigger is removed, then
\* the cron expression is parsed, then the new trigger is added
ScheduleJob(sched, j, cron) ==
    IF CronValid(cron)
    THEN [schedule |-> (sched \ {j}) \cup {j}, raised |-> FALSE]
    ELSE [schedule |-> sched \ {j}, raised |-> TRUE]

\* load_existing_jobs (scheduler.py 15-23): schedule_job for every active
\* row in turn; the first exception ends the loop
RECURSIVE LoadFrom(_, _, _)
LoadFrom(rows, sched, k) ==
    IF k > MaxJobs THEN [schedule |-> sched, raised |-> FALSE]
    ELSE IF k \notin DOMAIN rows \/ ~rows[k].is_active THEN LoadFrom(rows, sched, k + 1)
    ELSE LET r == ScheduleJob(sched, k, rows[k].cron_expression) IN
         IF r.raised THEN r ELSE LoadFrom(rows, r.schedule, k + 1)

LoadExistingJobs(rows, sched) == LoadFrom(rows, sched, 1)

JobAnswer(op, code, why, key, cron) ==
    Answer([ApiResponse(op, code, why, key, NoValue) EXCEPT !.request_data = cron])

\* create_scheduled_job of routers/jobs.py (12-49): the row is built with
\* timeout=request.timeout, and ScheduledJobRequest (models/schemas.py 47-52)
\* has no such field, so the AttributeError is caught and every request is
\* answered 500 before anything is added
CreateScheduledJob ==
    /\ Len(api_responses) < MaxCalls
    /\ \E cron \in CronInputs : JobAnswer("create_job", 500, "error", 0, cron)
    /\ UNCHANGED <<jobVars, webhookVars, catalogVars, vaultVars, proxyVars, execVars, otherVars,
                   managerVars, digestVars, serviceVars>>

\* update_scheduled_job of routers/jobs.py (80-97): the same attribute is read
\* while the arguments of scheduler.update_job are built
UpdateScheduledJob ==
    /\ Len(api_responses) < MaxCalls
    /\ \E j \in 1..MaxJobs, cron \in CronInputs :
            JobAnswer("update_job", 500, "error", j, cron)
    /\ UNCHANGED <<jobVars, webhookVars, catalogVars, vaultVars, proxyVars, execVars, otherVars,
                   managerVars, digestVars, serviceVars>>

\* create_scheduled_job of api.py (462-497): the row is committed, then
\* scheduler.load_existing_jobs(); an exception there is answered 500 and the
\* rollback finds nothing to undo
ApiCreateScheduledJob ==
    /\ Len(api_responses) < MaxCalls
    /\ \E cron \in CronInputs :
        LET j == NextRowId(scheduled_jobs)
            rows == AddRow(scheduled_jobs, j, ScheduledJobRow(cron))
            r == LoadExistingJobs(rows, schedule)
        IN  /\ j <= MaxJobs
            /\ scheduled_jobs' = rows
            /\ schedule' = r.schedule
            /\ IF r.raised THEN JobAnswer("api_create_job", 500, "error", j, cron)
                           ELSE JobAnswer("api_create_job", 200, "ok", j, cron)
    /\ UNCHANGED <<webhookVars, catalogVars, vaultVars, proxyVars, execVars, otherVars,
                   managerVars, digestVars, serviceVars>>

\* update_scheduled_job of api.py (527-543) with JobScheduler.update_job
\* (scheduler.py 113-132): the new fields are committed, then schedule_job
ApiUpdateScheduledJob ==
    /\ Len(api_responses) < MaxCalls
    /\ \E j \in 1..MaxJobs, cron \in CronInputs :
        IF j \notin DOMAIN scheduled_jobs
        THEN /\ JobAnswer("api_update_job", 500, "unknown", j, cron)
             /\ UNCHANGED jobVars
        ELSE LET r == ScheduleJob(schedule, j, cron) IN
             /\ scheduled_jobs' = [scheduled_jobs EXCEPT ![j].cron_expression = cron]
             /\ schedule' = r.schedule
             /\ IF r.raised THEN JobAnswer("api_update_job", 500, "error", j, cron)
                            ELSE JobAnswer("api_update_job", 200, "ok", j, cron)
    /\ UNCHANGED <<webhookVars, catalogVars, vaultVars, proxyVars, execVars, otherVars,
                   managerVars, digestVars, serviceVars>>

\* delete_scheduled_job (routers/jobs.py 99-106) with JobScheduler.delete_job
\* (scheduler.py 134-146)
DeleteScheduledJob ==
    /\ Len(api_responses) < MaxCalls
    /\ \E j \in 1..MaxJobs :
        /\ scheduled_jobs' = DropRow(scheduled_jobs, j)
        /\ schedule' = IF j \in DOMAIN scheduled_jobs THEN schedule \ {j} ELSE schedule
        /\ JobAnswer("delete_job", 200, "ok", j, <<>>)
    /\ UNCHANGED <<webhookVars, catalogVars, vaultVars, proxyVars, execVars, otherVars,
                   managerVars, digestVars, serviceVars>>

NextJobs ==
    \/ CreateScheduledJob
    \/ UpdateScheduledJob
    \/ ApiCreateScheduledJob
    \/ ApiUpdateScheduledJob
    \/ DeleteScheduledJob

SpecJobs == Init /\ [][NextJobs]_vars

\* a step that answers a request to create a scheduled job whose cron
\* expression is invalid
InvalidCronCreate ==
    /\ Len(api_responses') = Len(api_responses) + 1
    /\ LastAnswer.op \in {"create_job", "api_create_job"}
    /\ ~CronValid(LastAnswer.request_data)

\* C17: creating a scheduled job with an invalid cron expression is answered
\* with a 4xx status and leaves the job store and the in-memory schedule as
\* they were
C17_InvalidCronRejected ==
    [][InvalidCronCreate =>
        /\ LastAnswer.code \in 400..499
        /\ scheduled_jobs' = scheduled_jobs
        /\ schedule' = schedule]_vars

\* C17, the part about the store alone
C17_InvalidCronPersistsNothing ==
    [][InvalidCronCreate =>
        /\ scheduled_jobs' = scheduled_jobs
        /\ schedule' = schedule]_vars

(***************************************************************************)
(* api_old.py startup_event: the migration, then start_service for every   *)
(* row with auto_start = 1 and is_active = 1.                              *)
(***************************************************************************)
NotBooted == [done |-> FALSE, migrated |-> FALSE, failed |-> {}]

\* where start_service can raise: at the query, before anything is written,
\* or at thread.start(), after status "starting" has been committed
FailurePoints == {"query", "thread"}

\* the rows the query of lines 1526-1529 returns
AutoStartServices ==
    {s \in DOMAIN services : auto_start[s] /\ services[s].is_active}

\* the state startup_event leaves when start_service is called for the rows
\* of `called` and raises, at point p, for those of `failing`
StartupOutcome(migrated, called, failing, p) ==
    LET ok == called \ failing
        bad == called \cap failing
    IN  /\ services' = [s \in DOMAIN services |->
                IF s \in ok \/ (s \in bad /\ p = "thread")
                THEN [services[s] EXCEPT !.status = "starting"]
                ELSE services[s]]
        /\ monitors' = [s \in DOMAIN monitors |->
                IF s \in ok THEN monitors[s] + 1 ELSE monitors[s]]
        /\ service_threads' = service_threads \cup ok
        /\ started_up' = [done |-> TRUE, migrated |-> migrated, failed |-> bad]

\* the rows before the first failing one
BeforeFirstFailure(called, failing) ==
    {s \in called : \A f \in called \cap failing : s < f}

\* startup_event with a loop that ends at the first start that fails
StartupEventStopsAtFailure ==
    /\ ~started_up.done
    /\ \E migration \in {"ok", "raise"}, failing \in SUBSET ServiceIds, p \in FailurePoints :
        IF migration = "raise"
        THEN StartupOutcome(FALSE, {}, {}, p)
        ELSE StartupOutcome(TRUE,
                 BeforeFirstFailure(AutoStartServices, failing)
                    \cup (AutoStartServices \cap failing),
                 failing, p)
    /\ UNCHANGED <<running_services, loop, stopped_by_request, service_names,
                   auto_start, webhookVars, jobVars, vaultVars, proxyVars, execVars, otherVars,
                   api_responses, managerVars, digestVars>>

\* startup_event (api_old.py 1515-1538).  migrate_database() is inside the
\* try: when it raises, the except of line 1537 prints and nothing is
\* started.  start_service (236-262) catches its own exceptions and returns
\* False, so the loop goes on to the next row.
StartupEvent ==
    /\ ~started_up.done
    /\ \E migration \in {"ok", "raise"}, failing \in SUBSET ServiceIds, p \in FailurePoints :
        IF migration = "raise"
        THEN StartupOutcome(FALSE, {}, {}, p)
        ELSE StartupOutcome(TRUE, AutoStartServices, failing, p)
    /\ UNCHANGED <<running_services, loop, stopped_by_request, service_names,
                   auto_start, webhookVars, jobVars, vaultVars, proxyVars, execVars, otherVars,
                   api_responses, managerVars, digestVars>>

\* the rows a previous run of the engine left
InitStartup ==
    /\ services \in [ServiceIds ->
            {[NewService("always") EXCEPT !.status = st] : st \in {"stopped", "error"}}]
    /\ auto_start \in [ServiceIds -> BOOLEAN]
    /\ service_names = [s \in ServiceIds |-> ServiceNameList[s]]
    /\ started_up = NotBooted
    /\ service_threads = {}
    /\ running_services = {}
    /\ monitors = [s \in ServiceIds |-> 0]
    /\ loop = 0
    /\ stopped_by_request = {}
    /\ ManagerInit /\ DigestIdle
    /\ WebhooksIdle /\ JobsIdle /\ VaultIdle /\ ProxyIdle /\ ExecIdle /\ OtherIdle
    /\ api_responses = <<>>

\* requests are served once startup has completed
NextStartup ==
    \/ StartupEvent
    \/ \E s \in ServiceIds : RunService(s)
    \/ \E s \in ServiceIds : started_up.done /\ StartRequest(s)
    \/ \E s \in ServiceIds : started_up.done /\ StopRequest(s)

SpecStartup == InitStartup /\ [][NextStartup]_vars

StartupStep == ~started_up.done /\ started_up'.done

\* s has been started by this step: status starting, one more _run_service
\* thread, and the thread recorded
StartedNow(s) ==
    /\ services'[s].status = "starting"
    /\ monitors'[s] = monitors[s] + 1
    /\ s \in service_threads'

EnvNames == {"API_KEY", "TOKEN"}
EnvValues == {"1", "2"}

\* the key of .env_key, read by every get_env_manager once it exists
FernetKey == "key"

\* Fernet.encrypt and Fernet.decrypt: a token opens only under its own key
Encrypt(key, plain) == [key |-> key, plain |-> plain]
Decrypts(key, token) == token.key = key
Decrypt(key, token) == token.plain

\* get_all_variables (env_manager.py 103-112): every row that decrypts
GetAllVariables(rows) ==
    [n \in {m \in DOMAIN rows : Decrypts(FernetKey, rows[m])} |->
        Decrypt(FernetKey, rows[n])]

\* the environment of a process started with no environment argument
NoEnvironment == EmptyMap

\* set_variable (env_manager.py 33-51)
SetVariable ==
    /\ \E n \in EnvNames, v \in EnvValues :
            vault' = AddRow(vault, n, Encrypt(FernetKey, v))
    /\ UNCHANGED <<launches, webhookVars, catalogVars, jobVars, proxyVars, execVars, otherVars,
                   api_responses, managerVars, digestVars, serviceVars>>

\* delete_variable (env_manager.py 90-97)
DeleteVariable ==
    /\ \E n \in DOMAIN vault : vault' = DropRow(vault, n)
    /\ UNCHANGED <<launches, webhookVars, catalogVars, jobVars, proxyVars, execVars, otherVars,
                   api_responses, managerVars, digestVars, serviceVars>>

Launch(path, env) ==
    /\ launches' = Append(launches,
            [path |-> path, env |-> env, vault |-> GetAllVariables(vault)])
    /\ UNCHANGED <<vault, webhookVars, catalogVars, jobVars, proxyVars, execVars, otherVars,
                   api_responses, managerVars, digestVars, serviceVars>>

\* POST /execute with container_id (routers/execution.py 128-150):
\* exec_run(..., environment=env_vars)
LaunchBound ==
    /\ Len(launches) < MaxLaunches
    /\ Launch("bound", GetAllVariables(vault))

\* POST /execute without container_id (routers/execution.py 229-239):
\* execute_code(code, packages, timeout), whose exec (code_executor.py
\* 700-711) is given no environment
LaunchUnbound ==
    /\ Len(launches) < MaxLaunches
    /\ Launch("unbound", NoEnvironment)

\* a cron firing, execute_job (scheduler.py 42-58): the same execute_code
ExecuteJob ==
    /\ Len(launches) < MaxLaunches
    /\ \E j \in schedule : j \in DOMAIN scheduled_jobs /\ scheduled_jobs[j].is_active
    /\ Launch("cron", NoEnvironment)

\* a webhook invocation (routers/webhook_execution.py 143-160):
\* exec_run(exec_command, environment=env_vars)
LaunchWebhook ==
    /\ Len(launches) < MaxLaunches
    /\ \E j \in DOMAIN webhook_jobs : webhook_jobs[j].is_active
    /\ Launch("webhook", GetAllVariables(vault))

\* one webhook job and one scheduled job exist
InitVault ==
    /\ ManagerInit /\ DigestIdle /\ ServicesIdle /\ CatalogIdle /\ ProxyIdle /\ ExecIdle /\ OtherIdle
    /\ webhook_jobs = AddRow(EmptyMap, 1,
            WebhookRow(<<Slash, "hook">>, [assigns |-> NoValue, ends |-> "return"], 0, <<>>))
    /\ webhook_containers = EmptyMap
    /\ webhook_logs = <<>>
    /\ scheduled_jobs = AddRow(EmptyMap, 1, ScheduledJobRow(<<"*", "*", "*", "*", "*">>))
    /\ schedule = {1}
    /\ vault = EmptyMap
    /\ launches = <<>>
    /\ api_responses = <<>>

NextVault ==
    \/ SetVariable
    \/ DeleteVariable
    \/ LaunchBound
    \/ LaunchUnbound
    \/ ExecuteJob
    \/ LaunchWebhook

SpecVault == InitVault /\ [][NextVault]_vars

\* C19: every process that runs user code, on every path, is launched with
\* the vault's decrypted map as its environment
C19_EveryLaunchGetsVault ==
    \A i \in DOMAIN launches : launches[i].env = launches[i].vault

\* C19 for the two paths that read the vault
C19_BoundAndWebhookGetVault ==
    \A i \in DOMAIN launches :
        launches[i].path \in {"bound", "webhook"} => launches[i].env = launches[i].vault

(***************************************************************************)
(* routers/proxy: the path the reverse proxy sends upstream.  A path is    *)
(* the sequence of its tokens; "/" is a token of its own.                  *)
(***************************************************************************)
\* str.split('/'): the segments between the slashes, empty ones included
RECURSIVE SplitPath(_)
SplitPath(p) ==
    IF p = <<>> THEN << <<>> >>
    ELSE LET r == SplitPath(Tail(p)) IN
         IF Head(p) = Slash THEN << <<>> >> \o r
         ELSE << <<Head(p)>> \o Head(r) >> \o Tail(r)

\* '/'.join(parts)
RECURSIVE JoinPath(_)
JoinPath(parts) ==
    IF parts = <<>> THEN <<>>
    ELSE IF Len(parts) = 1 THEN parts[1]
    ELSE parts[1] \o <<Slash>> \o JoinPath(Tail(parts))

\* f"/proxy/{container_id}"
ProxyPrefix(id) == <<Slash, "proxy", Slash, id>>

\* a Streamlit handler that forwards the path as it came
StreamlitKeepsPrefix(original_path, container_id) == original_path

\* StreamlitProxyHandler.get_target_path (streamlit_handler.py 18-40)
StreamlitGetTargetPath(original_path, container_id) ==
    LET parts == SplitPath(original_path) IN
    IF Len(parts) >= 3 /\ parts[2] = <<"proxy">>
    THEN IF Len(parts) > 3
         THEN <<Slash>> \o JoinPath(SubSeq(parts, 4, Len(parts)))
         ELSE <<Slash>>
    ELSE original_path

\* str.startswith
StartsWith(p, prefix) ==
    Len(p) >= Len(prefix) /\ SubSeq(p, 1, Len(prefix)) = prefix

\* DashProxyHandler.get_target_path (web_framework_handler.py 139-167)
DashGetTargetPath(original_path, container_id) ==
    IF original_path = ProxyPrefix(container_id)
    THEN ProxyPrefix(container_id) \o <<Slash>>
    ELSE IF StartsWith(original_path, ProxyPrefix(container_id) \o <<Slash>>)
    THEN original_path
    ELSE original_path

\* get_handler(service_info['type']).get_target_path (proxy_handlers.py 252-263)
GetTargetPath(type, original_path, container_id) ==
    IF type = "streamlit" THEN StreamlitGetTargetPath(original_path, container_id)
    ELSE DashGetTargetPath(original_path, container_id)

\* short ids of sandboxes that run a web service, and a first path segment
\* that router.py takes for a static asset requested without an id
ProxyIds == {"ab12", "cd34"}
StaticPatterns == {"static"}

PathTokens == {Slash, "x", "y"}

\* what follows /proxy/<id>: nothing, or "/" and up to MaxPathLen tokens
PathRests ==
    {<<>>} \cup {<<Slash>> \o x : x \in UNION {[1..n -> PathTokens] : n \in 0..MaxPathLen}}

\* handle_proxy_request (router.py 19-86) and proxy_request
\* (proxy_handlers.py 246-263): a first segment that is a static pattern is
\* sent, under the prefix of the most recent service, as it is; any other is
\* looked up and its handler computes the path
ProxyRequest ==
    /\ \E type \in {"streamlit", "dash"}, recent \in ProxyIds,
          seg \in ProxyIds \cup StaticPatterns, rest \in PathRests :
        LET path == ProxyPrefix(seg) \o rest IN
        /\ proxy_request' = [type |-> type, id |-> seg, path |-> path, rest |-> rest]
        /\ proxy_target' =
                IF seg \in StaticPatterns
                THEN ProxyPrefix(recent) \o <<Slash>> \o SubSeq(path, 4, Len(path))
                ELSE GetTargetPath(type, path, seg)
    /\ UNCHANGED <<webhookVars, catalogVars, jobVars, vaultVars, execVars, otherVars,
                   api_responses, managerVars, digestVars, serviceVars>>

NextProxy == ProxyRequest

SpecProxy == Init /\ [][NextProxy]_vars

C21_CreateContainerSucceeds ==
    \A i \in DOMAIN responses :
        responses[i].op = "create" =>
            /\ responses[i].code = 200
            /\ responses[i].container_id \in Range(containers)
            /\ responses[i].container_id \in DOMAIN container_names

(***************************************************************************)
(* routers/environment.py: the endpoints of the vault.                     *)
(***************************************************************************)
\* a set_variable that leaves a name that exists as it is
StoreVariableIfAbsent(rows, n, v) ==
    IF n \in DOMAIN rows THEN rows ELSE AddRow(rows, n, Encrypt(FernetKey, v))

\* set_variable (env_manager.py 33-51): the row of the name is overwritten
\* with the new token, or added
StoreVariable(rows, n, v) == AddRow(rows, n, Encrypt(FernetKey, v))

\* get_variable (env_manager.py 52-62): None for no row and for a token that
\* does not decrypt
GetVariable(rows, n) ==
    IF n \notin DOMAIN rows THEN None
    ELSE IF Decrypts(FernetKey, rows[n]) THEN Decrypt(FernetKey, rows[n])
    ELSE None

EnvAnswer(op, code, n, value) ==
    Answer([ApiResponse(op, code, "env", n, NoValue) EXCEPT !.request_data = <<value>>])

\* POST /env (routers/environment.py 28-38)
SetEnvironmentVariable ==
    /\ Len(api_responses) < MaxCalls
    /\ \E n \in EnvNames, v \in EnvValues :
        /\ vault' = StoreVariable(vault, n, v)
        /\ EnvAnswer("set_env", 200, n, v)
    /\ UNCHANGED <<launches, webhookVars, catalogVars, jobVars, proxyVars, execVars, otherVars,
                   managerVars, digestVars, serviceVars>>

\* GET /env/{name} (routers/environment.py 59-66)
GetEnvironmentVariable ==
    /\ Len(api_responses) < MaxCalls
    /\ \E n \in EnvNames :
        LET value == GetVariable(vault, n) IN
        EnvAnswer("get_env", IF value = None THEN 404 ELSE 200, n, value)
    /\ UNCHANGED <<vaultVars, webhookVars, catalogVars, jobVars, proxyVars, execVars, otherVars,
                   managerVars, digestVars, serviceVars>>

\* DELETE /env/{name} (routers/environment.py 68-74)
DeleteEnvironmentVariable ==
    /\ Len(api_responses) < MaxCalls
    /\ \E n \in EnvNames :
        IF n \in DOMAIN vault
        THEN /\ vault' = DropRow(vault, n)
             /\ EnvAnswer("delete_env", 200, n, None)
        ELSE /\ UNCHANGED vault
             /\ EnvAnswer("delete_env", 404, n, None)
    /\ UNCHANGED <<launches, webhookVars, catalogVars, jobVars, proxyVars, execVars, otherVars,
                   managerVars, digestVars, serviceVars>>

NextEnv ==
    \/ SetEnvironmentVariable
    \/ GetEnvironmentVariable
    \/ DeleteEnvironmentVariable

SpecEnv == Init /\ [][NextEnv]_vars

\* C22: a get of a name right after a set of that name to v returns v, also
\* when the name held another value before; a get right after a delete of
\* the name returns None
C22_VaultRoundTrip ==
    \A i \in DOMAIN api_responses :
        i > 1 =>
            LET r == api_responses[i]
                p == api_responses[i - 1]
            IN  (r.op = "get_env" /\ p.key = r.key) =>
                    /\ p.op = "set_env" => (r.code = 200 /\ r.request_data = p.request_data)
                    /\ p.op = "delete_env" => r.request_data = <<None>>

\* C22 happens: a name held one value, was set to another, and the get that
\* followed returned the new one
C22_Witness ==
    /\ Len(api_responses) = 3
    /\ api_responses[1].op = "set_env"
    /\ api_responses[2].op = "set_env"
    /\ api_responses[3].op = "get_env"
    /\ api_responses[1].key = api_responses[2].key
    /\ api_responses[2].key = api_responses[3].key
    /\ api_responses[1].request_data # api_responses[2].request_data
    /\ api_responses[3].request_data = api_responses[2].request_data

(***************************************************************************)
(* POST /execute with its clock: what a run writes, how long it takes, and *)
(* what the handler reports (routers/execution.py, code_executor.py).      *)
(***************************************************************************)
Timeouts == 1..MaxTimeout

\* a user program: whether it writes to stdout and to stderr, how long it
\* runs, and whether it exits with status 0
Programs ==
    [prints : BOOLEAN, complains : BOOLEAN, duration : 0..MaxDuration, exits_zero : BOOLEAN]

OutToken == "out"
ErrToken == "err"

\* "Execution timed out after N seconds"
TimeoutMarker == "timed out"

Contains(text, token) == \E i \in DOMAIN text : text[i] = token

\* the sandbox of the empty package list, live, as an earlier POST /execute
\* left it
LiveSandbox ==
    [state |-> "running", hash |-> GetPackageHash(<<>>), port |-> 0, web |-> FALSE,
     opts |-> OneShotRunOptions]

ExecResult(path, c, timed_out, success, output, error, time, timeout, others) ==
    [path |-> path, container_id |-> c, timed_out |-> timed_out, success |-> success,
     output |-> output, error |-> error, execution_time |-> time,
     timeout |-> timeout, others |-> others]

\* the mutation of MarkTimeout that marks the output only
MarkTimeoutOutputOnly(out, err) ==
    [output |-> IF out # <<>> THEN out \o <<TimeoutMarker>> ELSE out, error |-> err]

\* where the marker goes after a timeout: to the output if there is output,
\* else to the error if there is one, else it is the whole error
MarkTimeout(out, err) ==
    IF out # <<>> THEN [output |-> out \o <<TimeoutMarker>>, error |-> err]
    ELSE IF err # <<>> THEN [output |-> out, error |-> err \o <<TimeoutMarker>>]
    ELSE [output |-> out, error |-> <<TimeoutMarker>>]

\* the bound path (routers/execution.py 115-228): the exec runs in a thread
\* that is joined for timeout seconds.  If the thread is still alive, pkill
\* is sent detached and the thread is joined one second more; whether the
\* program is gone by then is not checked.
ExecuteBoundTimed ==
    /\ Len(results) < MaxRuns
    /\ \E c \in Ids, prog \in Programs, timeout \in Timeouts, killed \in BOOLEAN,
          extra \in 0..1 :
        /\ c \in Range(containers) /\ IsRunning(c)
        /\ LET timed_out == prog.duration > timeout
               out == IF prog.prints THEN <<OutToken>> ELSE <<>>
               err == IF prog.complains THEN <<ErrToken>> ELSE <<>>
               marked == IF timed_out THEN MarkTimeout(out, err)
                         ELSE [output |-> out, error |-> err]
               time == IF timed_out THEN timeout + extra ELSE prog.duration
           IN  /\ (~timed_out) => (~killed /\ extra = 0)
               /\ results' = Append(results,
                      ExecResult("bound", c, timed_out, ~timed_out /\ prog.exits_zero,
                                 marked.output, marked.error, time, timeout,
                                 processes[c]))
               /\ processes' = [processes EXCEPT ![c] =
                      IF ~timed_out THEN @
                      ELSE IF killed THEN 0
                      ELSE @ + 1]
    /\ UNCHANGED <<managerVars, digestVars, serviceVars, webhookVars, catalogVars,
                   jobVars, vaultVars, proxyVars, otherVars,
                   api_responses>>

\* the unbound path (routers/execution.py 229-262, code_executor.py 676-764
\* with _execute_with_timeout 184-210): the sandbox of the digest is made if
\* there is none; docker exec runs under the timeout; on expiry the sandbox
\* is killed, removed and dropped from the map, the output is None and the
\* error is the message
ExecuteUnboundTimed ==
    /\ Len(results) < MaxRuns
    /\ \E prog \in Programs, timeout \in Timeouts, extra \in 0..1 :
        LET hash == GetPackageHash(<<>>)
            reuse == hash \in DOMAIN containers
            c == IF reuse THEN containers[hash] ELSE NewId
            timed_out == prog.duration > timeout
            success == ~timed_out /\ prog.exits_zero
            output == IF success /\ prog.prints THEN <<OutToken>> ELSE <<>>
            error == IF timed_out THEN <<TimeoutMarker>>
                     ELSE IF ~success /\ prog.complains THEN <<ErrToken>>
                     ELSE <<>>
            time == IF timed_out THEN timeout + extra ELSE prog.duration
        IN  /\ reuse \/ FreshIds # {}
            /\ (~timed_out) => extra = 0
            /\ results' = Append(results,
                   ExecResult("unbound", c, timed_out, success, output, error, time,
                              timeout, processes[c]))
            /\ IF timed_out
               THEN /\ docker' = [docker EXCEPT ![c] = RemovedSandbox]
                    /\ containers' = DropRow(containers, hash)
                    /\ processes' = [processes EXCEPT ![c] = 0]
               ELSE /\ docker' = [docker EXCEPT ![c] = LiveSandbox]
                    /\ containers' = AddRow(containers, hash, c)
                    /\ UNCHANGED processes
    /\ UNCHANGED <<web_service_containers, container_names, thr, logs, responses,
                   destroyed, nreq, digestVars, serviceVars, webhookVars, catalogVars,
                   jobVars, vaultVars, proxyVars, otherVars,
                   api_responses>>

\* a program that outlived its request comes to its end
ProcessExit ==
    /\ \E c \in Ids :
        /\ processes[c] > 0
        /\ processes' = [processes EXCEPT ![c] = @ - 1]
    /\ UNCHANGED <<results, managerVars, digestVars, serviceVars, webhookVars,
                   catalogVars, jobVars, vaultVars, proxyVars, otherVars,
                   api_responses>>

InitExec ==
    /\ docker = [c \in Ids |-> IF c = 1 THEN LiveSandbox ELSE AbsentSandbox]
    /\ containers = AddRow(EmptyMap, GetPackageHash(<<>>), 1)
    /\ web_service_containers = EmptyMap
    /\ container_names = EmptyMap
    /\ thr = [t \in Threads |-> IdleThread]
    /\ logs = <<>>
    /\ responses = <<>>
    /\ destroyed = {}
    /\ nreq = 0
    /\ DigestIdle /\ ServicesIdle
    /\ WebhooksIdle /\ CatalogIdle /\ JobsIdle /\ VaultIdle /\ ProxyIdle /\ ExecIdle /\ OtherIdle
    /\ api_responses = <<>>

NextExec ==
    \/ ExecuteBoundTimed
    \/ ExecuteUnboundTimed
    \/ ProcessExit

SpecExec == InitExec /\ [][NextExec]_vars

C24_OneExecutionPerSandbox ==
    /\ \A i \in DOMAIN results : results[i].others = 0
    /\ \A c \in Ids : processes[c] <= 1

\* the image of a digest is known to exist once a sandbox was run from it or
\* a worker has gone past its build
ImageBuilt(h) ==
    \/ \E c \in Ids : docker[c].state # "absent" /\ docker[c].hash = h
    \/ \E t \in Threads : thr[t].pc \notin {"idle", "build"} /\ HashOf(t) = h

\* the workers inside _build_image with a package list to install whose image
\* does not exist yet: each of them runs docker build
Building(h) ==
    {t \in Threads : /\ thr[t].pc = "build"
                     /\ ReqList[thr[t].req].packages # <<>>
                     /\ HashOf(t) = h}

\* C25: of the builds of one digest requested concurrently, at most one is in
\* flight
C25_BuildsCoalesce ==
    \A t \in Threads :
        (thr[t].pc = "build" /\ ~ImageBuilt(HashOf(t))) =>
            Cardinality(Building(HashOf(t))) <= 1

(***************************************************************************)
(* The life cycle of a service.                                            *)
(***************************************************************************)
\* the pairs <<from, to>> of the state machine of a service; a stop leads to
\* stopped from any status
DocumentedTransitions ==
    {<<"stopped", "starting">>, <<"starting", "running">>, <<"running", "stopped">>,
     <<"running", "error">>, <<"running", "restarting">>, <<"restarting", "starting">>}
    \cup {<<st, "stopped">> : st \in {"starting", "running", "error", "restarting"}}

\* C26: the status of a service changes only along the documented
\* transitions
C26_DocumentedTransitionsOnly ==
    [][\A s \in ServiceIds :
          services'[s].status # services[s].status =>
              <<services[s].status, services'[s].status>> \in DocumentedTransitions]_vars

\* C27: a service with restart_policy on-failure whose run ended in failure,
\* and that nobody asked to stop, is started again
C27_OnFailureRestarts ==
    \A s \in ServiceIds :
        (/\ services[s].restart_policy = "on-failure" /\ services[s].is_active
         /\ services[s].status = "error" /\ monitors[s] = 0
         /\ s \notin stopped_by_request)
        ~> (services[s].status \in {"restarting", "starting", "running"})

\* C28: a service has at most one _run_service thread at any time
C28_OneMonitorPerService ==
    \A s \in ServiceIds : monitors[s] <= 1

(***************************************************************************)
(* The reuse maps of the entry points.  get_code_executor() hands one      *)
(* CodeExecutor to routers/containers.py and routers/execution.py;         *)
(* routers/webhook_execution.py line 17 makes a CodeExecutor of its own,   *)
(* whose map is webhook_containers.                                        *)
(***************************************************************************)
\* the webhook endpoints on an engine where POST /execute has left a live
\* sandbox in the map of the shared CodeExecutor
SpecSharedMap == InitExec /\ [][NextWebhook]_vars

\* the sandboxes that the shared CodeExecutor holds and that are running
LiveSandboxes == {c \in Range(containers) : IsRunning(c)}

\* C29: an invocation of a webhook job bound to a live sandbox of the shared
\* map is not refused for want of its sandbox: it runs in that sandbox
C29_BoundWebhookFindsSandbox ==
    [][(WebhookInvoked /\ LastAnswer.key \in DOMAIN webhook_jobs
            /\ webhook_jobs[LastAnswer.key].container_id \in LiveSandboxes)
          => LastAnswer.why # "container"]_vars

\* the ids of the stored jobs that are active
ActiveJobs == {j \in DOMAIN scheduled_jobs : scheduled_jobs[j].is_active}

\* C30: after every create, update and delete the in-memory schedule holds
\* one entry for each active ScheduledJob row and no other
C30_ScheduleMirrorsActiveJobs ==
    schedule = ActiveJobs

(***************************************************************************)
(* scheduler.py: a cron trigger fires and execute_job runs.                *)
(***************************************************************************)
\* what self.executor.execute_code does for the one-shot code of a job: it
\* raises (the build fails), or returns a result
JobOutcomes == {"ok", "error", "timeout", "create_failed", "raise"}

JobLogRow(j, status, cid, firing) ==
    [job_id |-> j, status |-> status, container_id |-> cid, firing |-> firing]

\* the mutation of LogExecution that writes nothing when execute_code raised
LogExecutionUnlessRaised(rows, j, outcome, cid, firing) ==
    IF outcome = "raise" THEN rows
    ELSE Append(rows, JobLogRow(j, IF outcome = "ok" THEN "success" ELSE "error",
                                cid, firing))

\* lines 60-75 after a result, lines 77-88 after an exception: one row either
\* way, without a container id after an exception
LogExecution(rows, j, outcome, cid, firing) ==
    IF outcome = "raise" THEN Append(rows, JobLogRow(j, "error", 0, firing))
    ELSE Append(rows, JobLogRow(j, IF outcome = "ok" THEN "success" ELSE "error",
                                cid, firing))

\* execute_job (scheduler.py 42-92), from the trigger to db.close().  The
\* job is read; a missing or inactive row ends the call.  execute_code of the
\* scheduler's own CodeExecutor reuses the sandbox of the digest or makes one;
\* a timeout removes the sandbox.  Then the row and last_run are committed.
ExecuteJobFiring ==
    /\ Len(fired) < MaxFirings
    /\ \E j \in schedule, outcome \in JobOutcomes :
        LET firing == Len(fired) + 1
            active == j \in DOMAIN scheduled_jobs /\ scheduled_jobs[j].is_active
            hash == GetPackageHash(<<>>)
            reuse == hash \in DOMAIN cron_containers
            created == ~reuse /\ outcome \notin {"raise", "create_failed"}
            c == IF reuse THEN cron_containers[hash]
                 ELSE IF created THEN NewId ELSE 0
        IN  /\ fired' = Append(fired, [job |-> j, active |-> active])
            /\ IF ~active
               THEN UNCHANGED <<job_logs, last_run, cron_containers, docker>>
               ELSE /\ reuse => outcome \notin {"raise", "create_failed"}
                    /\ created => FreshIds # {}
                    /\ job_logs' = LogExecution(job_logs, j, outcome, c, firing)
                    /\ last_run' = [last_run EXCEPT ![j] = firing]
                    /\ IF outcome = "timeout"
                       THEN /\ docker' = [docker EXCEPT ![c] = RemovedSandbox]
                            /\ cron_containers' = DropRow(cron_containers, hash)
                       ELSE IF created
                       THEN /\ docker' = [docker EXCEPT ![c] = LiveSandbox]
                            /\ cron_containers' = AddRow(cron_containers, hash, c)
                       ELSE UNCHANGED <<docker, cron_containers>>
    /\ UNCHANGED <<containers, web_service_containers, container_names, thr, logs,
                   responses, destroyed, nreq, digestVars, serviceVars, webhookVars,
                   catalogVars, jobVars, vaultVars, proxyVars, execVars, relayVars,
                   fetchVars, routeVars, buildVars, startVars, detectVars, api_responses>>

NextCron ==
    \/ ApiCreateScheduledJob
    \/ DeleteScheduledJob
    \/ ExecuteJobFiring

SpecCron == Init /\ [][NextCron]_vars

\* a step in which the trigger of an active job fires
JobFired ==
    /\ Len(fired') = Len(fired) + 1
    /\ fired'[Len(fired')].active

\* C31: every firing of an active scheduled job, whether the execution
\* succeeds or raises, appends exactly one ExecutionLog row whose job_id is
\* that job and updates the job's last_run
C31_FiringLoggedOnce ==
    [][JobFired =>
        /\ Len(job_logs') = Len(job_logs) + 1
        /\ SubSeq(job_logs', 1, Len(job_logs)) = job_logs
        /\ job_logs'[Len(job_logs')].job_id = fired'[Len(fired')].job
        /\ last_run'[fired'[Len(fired')].job] = Len(fired')
        /\ last_run'[fired'[Len(fired')].job] # last_run[fired'[Len(fired')].job]]_vars

\* C31: a job fired and its execution raised, and a job fired and its
\* execution succeeded, each with its row
C31_Witness ==
    /\ \E i \in DOMAIN job_logs :
        /\ job_logs[i].status = "error" /\ job_logs[i].container_id = 0
        /\ fired[job_logs[i].firing].active
    /\ \E i \in DOMAIN job_logs : job_logs[i].status = "success"

(***************************************************************************)
(* routers/proxy/proxy_handlers.py proxy_websocket: one relay between a    *)
(* client WebSocket and the WebSocket of the web service.                  *)
(***************************************************************************)
Frames == {"text", "bytes"}

RelayFrame == UNCHANGED <<managerVars, digestVars, serviceVars, webhookVars, catalogVars,
                          jobVars, vaultVars, proxyVars, execVars, cronVars, fetchVars,
                          routeVars,
                          buildVars,
                          startVars,
                          detectVars,
                          api_responses>>

\* lines 44-137: the service is looked up, the client is accepted, the
\* service is probed and the upstream URLs are tried.  Every failure closes
\* the client and returns; a connection starts the two pumps under
\* asyncio.gather.
OpenRelay ==
    /\ relay.phase = "idle"
    /\ \E connected \in BOOLEAN :
        relay' = IF connected
                 THEN [relay EXCEPT !.phase = "relaying", !.client = "open",
                                    !.upstream = "open", !.c2t = "running",
                                    !.t2c = "running"]
                 ELSE [relay EXCEPT !.phase = "done", !.client = "closed"]
    /\ RelayFrame

\* the client sends a frame
ClientSends ==
    /\ relay.phase = "relaying" /\ relay.client = "open"
    /\ Len(relay.from_client) + Len(relay.to_upstream) < MaxFrames
    /\ \E f \in Frames : relay' = [relay EXCEPT !.from_client = Append(@, f)]
    /\ RelayFrame

\* the web service sends a frame
UpstreamSends ==
    /\ relay.phase = "relaying" /\ relay.upstream = "open"
    /\ Len(relay.from_upstream) + Len(relay.to_client) < MaxFrames
    /\ \E f \in Frames : relay' = [relay EXCEPT !.from_upstream = Append(@, f)]
    /\ RelayFrame

\* the client goes away
ClientDisconnects ==
    /\ relay.phase = "relaying" /\ relay.client = "open"
    /\ relay' = [relay EXCEPT !.client = "gone"]
    /\ RelayFrame

\* the web service closes its end
UpstreamCloses ==
    /\ relay.phase = "relaying" /\ relay.upstream = "open"
    /\ relay' = [relay EXCEPT !.upstream = "closed"]
    /\ RelayFrame

\* client_to_target (lines 142-160), one turn of its loop: websocket.receive()
\* returns the next frame, which is sent upstream as it is; a send on a
\* closed upstream, or a receive after the disconnect, raises and the loop
\* breaks.  With nothing to receive the pump waits.
ClientToTarget ==
    /\ relay.c2t = "running"
    /\ IF relay.from_client # <<>>
       THEN relay' = IF relay.upstream = "open"
                     THEN [relay EXCEPT !.from_client = Tail(@),
                                        !.to_upstream = Append(@, Head(relay.from_client))]
                     ELSE [relay EXCEPT !.from_client = Tail(@), !.c2t = "ended"]
       ELSE /\ relay.client = "gone"
            /\ relay' = [relay EXCEPT !.c2t = "ended"]
    /\ RelayFrame

\* target_to_client (lines 162-180), one turn of its loop: target_ws.recv()
\* returns the next frame, which goes to the client as text or as bytes; a
\* send to a client that is gone, or a recv on a closed upstream, raises and
\* the loop breaks.  With nothing to receive the pump waits.
TargetToClient ==
    /\ relay.t2c = "running"
    /\ IF relay.from_upstream # <<>>
       THEN relay' = IF relay.client = "open"
                     THEN [relay EXCEPT !.from_upstream = Tail(@),
                                        !.to_client = Append(@, Head(relay.from_upstream))]
                     ELSE [relay EXCEPT !.from_upstream = Tail(@), !.t2c = "ended"]
       ELSE /\ relay.upstream = "closed"
            /\ relay' = [relay EXCEPT !.t2c = "ended"]
    /\ RelayFrame

\* lines 183-190: asyncio.gather returns when both pumps have returned; then
\* `async with target_ws` closes the upstream, the handler returns and the
\* server closes the client
GatherReturns ==
    /\ relay.phase = "relaying"
    /\ relay.c2t = "ended" /\ relay.t2c = "ended"
    /\ relay' = [relay EXCEPT !.phase = "done", !.upstream = "closed",
                              !.client = IF @ = "open" THEN "closed" ELSE @]
    /\ RelayFrame

NextRelay ==
    \/ OpenRelay
    \/ ClientSends
    \/ UpstreamSends
    \/ ClientDisconnects
    \/ UpstreamCloses
    \/ ClientToTarget
    \/ TargetToClient
    \/ GatherReturns

SpecRelay == Init /\ [][NextRelay]_vars

\* the event loop runs every coroutine that can run; what the client and the
\* web service do is up to them
FairSpecRelay ==
    SpecRelay /\ WF_vars(ClientToTarget) /\ WF_vars(TargetToClient) /\ WF_vars(GatherReturns)

\* C32: when either pump ends, the other pump is stopped and both the client
\* connection and the upstream connection are closed
C32_BothSidesShutDown ==
    (relay.c2t = "ended" \/ relay.t2c = "ended")
        ~> (/\ relay.c2t = "ended" /\ relay.t2c = "ended"
            /\ relay.client # "open" /\ relay.upstream = "closed")

(***************************************************************************)
(* routers/proxy/proxy_handlers.py proxy_request: the upstream candidates  *)
(* and the retries.                                                        *)
(***************************************************************************)
\* get_docker_hosts returns four addresses; build_target_urls makes one URL
\* for each, in that order
NumDockerHosts == 4

\* max_retries = 3
max_retries == 3

\* retry_delay = 1.0, in units of 1/256 second so that the products stay whole
InitialRetryDelay == 256

\* the mutation of NextRetryDelay that keeps the delay
SameRetryDelay(d) == d

\* retry_delay *= 1.5
NextRetryDelay(d) == (d * 3) \div 2

\* the methods a request can carry; TRACE is one that the handler has no
\* branch for
HttpMethods == {"GET", "POST", "PUT", "DELETE", "PATCH", "HEAD", "OPTIONS", "TRACE"}
ProxiedMethods == HttpMethods \ {"TRACE"}

FetchFrame == UNCHANGED <<managerVars, digestVars, serviceVars, webhookVars, catalogVars,
                          jobVars, vaultVars, proxyVars, execVars, cronVars, relayVars,
                          routeVars,
                          buildVars,
                          startVars,
                          detectVars,
                          api_responses>>

\* lines 230-300: the service is looked up (404 when there is none), the
\* target URLs are built and the loops start at the first URL
BeginFetch ==
    /\ fetch.phase = "idle"
    /\ \E m \in HttpMethods, found \in BOOLEAN :
        fetch' = IF found
                 THEN [fetch EXCEPT !.phase = "trying", !.method = m, !.url = 1,
                                    !.retry_delay = InitialRetryDelay]
                 ELSE [fetch EXCEPT !.phase = "done", !.method = m, !.code = 404]
    /\ FetchFrame

\* lines 302-345 and 375-384, one pass of the inner loop: the request is sent
\* to the current URL.  An answer ends both loops and is passed on.  A
\* ConnectError sleeps retry_delay and grows it, or after the last retry moves
\* to the next URL, or after the last URL is answered 503.  A timeout is
\* answered 504.  The HTTPException(405) of a method without a branch is
\* caught by `except Exception` and answered 502.
AttemptFetch ==
    /\ fetch.phase = "trying"
    /\ \E outcome \in {"answer", "refused", "timeout"} :
        IF fetch.method \notin ProxiedMethods
        THEN /\ outcome = "answer"
             /\ fetch' = [fetch EXCEPT !.phase = "done", !.code = 502]
        ELSE LET tried == Append(fetch.tried, [url |-> fetch.url, outcome |-> outcome])
             IN  fetch' =
                   IF outcome = "answer"
                   THEN [fetch EXCEPT !.phase = "done", !.tried = tried, !.code = 200]
                   ELSE IF outcome = "timeout"
                   THEN [fetch EXCEPT !.phase = "done", !.tried = tried, !.code = 504]
                   ELSE IF fetch.attempt < max_retries - 1
                   THEN [fetch EXCEPT !.tried = tried, !.attempt = @ + 1,
                                      !.slept = Append(@, fetch.retry_delay),
                                      !.retry_delay = NextRetryDelay(@)]
                   ELSE IF fetch.url < NumDockerHosts
                   THEN [fetch EXCEPT !.tried = tried, !.url = @ + 1, !.attempt = 0]
                   ELSE [fetch EXCEPT !.phase = "done", !.tried = tried, !.code = 503]
    /\ FetchFrame

NextFetch ==
    \/ BeginFetch
    \/ AttemptFetch

SpecFetch == Init /\ [][NextFetch]_vars

\* how often URL u was tried
TriesOf(u) == Cardinality({i \in DOMAIN fetch.tried : fetch.tried[i].url = u})

\* C33: the candidates are tried in list order, each at most max_retries
\* times, with a delay that grows from one sleep to the next; the first
\* answer ends the search; and when every attempt was refused the request
\* ends with 503 after max_retries attempts at each candidate
C33_BoundedRetriesThen503 ==
    /\ \A i \in DOMAIN fetch.tried : \A k \in DOMAIN fetch.tried :
          i < k => fetch.tried[i].url <= fetch.tried[k].url
    /\ \A u \in 1..NumDockerHosts : TriesOf(u) <= max_retries
    /\ \A u \in 2..NumDockerHosts : TriesOf(u) > 0 => TriesOf(u - 1) = max_retries
    /\ \A i \in DOMAIN fetch.slept : \A k \in DOMAIN fetch.slept :
          i < k => fetch.slept[i] < fetch.slept[k]
    /\ \A i \in DOMAIN fetch.tried :
          fetch.tried[i].outcome = "answer" =>
              /\ i = Len(fetch.tried)
              /\ fetch.phase = "done" /\ fetch.code = 200
    /\ (fetch.phase = "done" /\ fetch.tried # <<>>
            /\ \A i \in DOMAIN fetch.tried : fetch.tried[i].outcome = "refused")
          => (fetch.code = 503 /\ Len(fetch.tried) = max_retries * NumDockerHosts)
    /\ fetch.code = 503 =>
          \A i \in DOMAIN fetch.tried : fetch.tried[i].outcome = "refused"

\* C33: every candidate refused every attempt and the request ended with 503
C33_Witness ==
    /\ fetch.phase = "done" /\ fetch.code = 503
    /\ Len(fetch.tried) = max_retries * NumDockerHosts
    /\ Len(fetch.slept) = (max_retries - 1) * NumDockerHosts

(***************************************************************************)
(* routers/proxy/router.py handle_proxy_request with find_service_info     *)
(* (base.py) and proxy_request: which service a request under /proxy/ is   *)
(* sent to, and on which path.                                             *)
(***************************************************************************)
\* the full ids of the sandboxes that can run a web service
WebServiceIds == {"ab1", "ab2", "cd1"}

\* first path segments that are not static patterns: full ids, their
\* prefixes, the empty segment, and one that belongs to nothing
IdSegments == {"", "a", "ab", "ab1", "cd", "zz"}

\* the characters of a segment or an id
Spell(x) ==
    CASE x = "" -> <<>>
      [] x = "a" -> <<"a">>
      [] x = "ab" -> <<"a", "b">>
      [] x = "ab1" -> <<"a", "b", "1">>
      [] x = "ab2" -> <<"a", "b", "2">>
      [] x = "cd" -> <<"c", "d">>
      [] x = "cd1" -> <<"c", "d", "1">>
      [] OTHER -> <<"z", "z">>

\* cid[:8]
ShortId(cid) ==
    CHOOSE x \in IdSegments : Spell(x) = SubSeq(Spell(cid), 1, ShortIdLen)

WebServiceTypes == {"streamlit", "dash", "flask"}

\* static_patterns of handle_proxy_request (router.py 31-35)
RouterStaticPatterns ==
    {"static", "_stcore", "favicon.ico", "manifest.json", "_dash-component-suites",
     "_dash-layout", "_dash-dependencies", "_dash-update-component"}

\* short_container_id.startswith('_dash-')
IsDashPattern(seg) ==
    seg \in {"_dash-component-suites", "_dash-layout", "_dash-dependencies",
             "_dash-update-component"}

\* get_static_asset_patterns of the handler of each framework
GetStaticAssetPatterns(type) ==
    IF type = "streamlit" THEN {"_stcore", "favicon.ico", "manifest.json"}
    ELSE {"static", "assets", "public"} \cup
         (IF type = "dash"
          THEN {"_dash-component-suites", "_dash-layout", "_dash-dependencies",
                "_dash-update-component"}
          ELSE {"static"})

\* the static first segments the model sends
StaticSegments == {"static", "_stcore", "_dash-layout"}

RouteRests == {<<>>, <<Slash, "x">>, <<Slash, "x", Slash, "y">>}

\* the rows of a sequence that satisfy a test, in their order
RECURSIVE OfType(_, _)
OfType(rows, types) ==
    IF rows = <<>> THEN <<>>
    ELSE IF Head(rows).type \in types THEN <<Head(rows)>> \o OfType(Tail(rows), types)
    ELSE OfType(Tail(rows), types)

\* find_service_info (base.py 80-96): the first entry, in the order of the
\* dict, whose id starts with the segment
RECURSIVE FindServiceInfo(_, _)
FindServiceInfo(rows, seg) ==
    IF rows = <<>> THEN [cid |-> "", type |-> ""]
    ELSE IF StartsWith(Spell(Head(rows).cid), Spell(seg)) THEN Head(rows)
    ELSE FindServiceInfo(Tail(rows), seg)

\* router.py 44-60: the candidates of a static request, by preference
TargetContainers(rows, seg) ==
    LET streamlit_containers == OfType(rows, {"streamlit"})
        dash_containers == OfType(rows, {"dash"})
        web_containers == OfType(rows, WebServiceTypes \ {"streamlit", "dash"})
    IN  IF IsDashPattern(seg)
        THEN dash_containers \o streamlit_containers \o web_containers
        ELSE streamlit_containers \o dash_containers \o web_containers

\* the handler of a framework computes the upstream path: Dash keeps the
\* prefix, Streamlit and the other web frameworks strip it
HandlerGetTargetPath(type, path, id) ==
    IF type = "dash" THEN DashGetTargetPath(path, id)
    ELSE StreamlitGetTargetPath(path, id)

RouteFrame == UNCHANGED <<managerVars, digestVars, serviceVars, webhookVars, catalogVars,
                          jobVars, vaultVars, proxyVars, execVars, cronVars, relayVars,
                          fetchVars, buildVars,
                          startVars,
                          detectVars,
                          api_responses>>

\* a web service starts and is entered into web_service_containers
RegisterWebService ==
    /\ Len(registry) < MaxWebServices
    /\ \E cid \in WebServiceIds, type \in WebServiceTypes :
        /\ \A i \in DOMAIN registry : registry[i].cid # cid
        /\ registry' = Append(registry, [cid |-> cid, type |-> type])
    /\ UNCHANGED route
    /\ RouteFrame

\* handle_proxy_request (router.py 19-84) down to the upstream path that
\* proxy_request (proxy_handlers.py 246-267) uses.  A static first segment
\* is sent to target_containers[-1] with the path rewritten under that
\* service's short id and used as it is; any other segment is looked up with
\* find_service_info and the handler computes the path.  404 when nothing is
\* found.
RouteRequest ==
    /\ \E seg \in IdSegments \cup StaticSegments, rest \in RouteRests :
        LET path == ProxyPrefix(seg) \o rest
            target_containers == TargetContainers(registry, seg)
            route0 == [NoRoute EXCEPT !.seg = seg, !.rest = rest,
                                      !.registry = registry]
        IN
        IF seg \in RouterStaticPatterns
        THEN IF target_containers = <<>>
             THEN route' = [route0 EXCEPT !.fallback = TRUE, !.code = 404]
             ELSE LET target == target_containers[Len(target_containers)]
                      short == ShortId(target.cid)
                      found == FindServiceInfo(registry, short)
                  IN  route' = [route0 EXCEPT
                          !.fallback = TRUE, !.code = 200, !.service = found.cid,
                          !.type = found.type, !.short = short,
                          !.upstream_path =
                              ProxyPrefix(short) \o <<Slash>> \o SubSeq(path, 4, Len(path))]
        ELSE LET found == FindServiceInfo(registry, seg) IN
             IF found.cid = ""
             THEN route' = [route0 EXCEPT !.code = 404]
             ELSE route' = [route0 EXCEPT
                     !.code = 200, !.service = found.cid, !.type = found.type,
                     !.short = seg,
                     !.upstream_path = HandlerGetTargetPath(found.type, path, seg)]
    /\ UNCHANGED registry
    /\ RouteFrame

NextRoute ==
    \/ RegisterWebService
    \/ RouteRequest

SpecRoute == Init /\ [][NextRoute]_vars

\* the registered services whose framework claims a pattern, oldest first
Claiming(rows, seg) ==
    OfType(rows, {t \in WebServiceTypes : seg \in GetStaticAssetPatterns(t)})

\* C34: a request whose first segment is a static pattern goes to the most
\* recent service whose framework claims the pattern, rewritten under that
\* service's short id, and is answered 404 when no service claims it
C34_StaticFallbackByFramework ==
    route.fallback =>
        LET claiming == Claiming(route.registry, route.seg) IN
        IF claiming = <<>> THEN route.code = 404
        ELSE /\ route.code = 200
             /\ route.service = claiming[Len(claiming)].cid
             /\ StartsWith(route.upstream_path,
                           ProxyPrefix(ShortId(route.service)) \o <<Slash, route.seg>>)

\* C35: a static request that the fallback sends to a service reaches it on
\* the upstream path of the same request made under the service's prefix
C35_FallbackSameAsPrefixed ==
    (route.fallback /\ route.code = 200) =>
        route.upstream_path =
            HandlerGetTargetPath(route.type,
                ProxyPrefix(route.short) \o <<Slash, route.seg>> \o route.rest,
                route.short)

\* C36: a request /proxy/<seg>/... is sent to a service only if <seg> is
\* that service's short id and the short id of no other service
C36_RoutedOnlyByExactShortId ==
    (~route.fallback /\ route.code = 200) =>
        /\ route.seg = ShortId(route.service)
        /\ \A i \in DOMAIN route.registry :
              StartsWith(Spell(route.registry[i].cid), Spell(route.seg))
                  => route.registry[i].cid = route.service

(***************************************************************************)
(* code_executor.py _build_image called from several threads (the          *)
(* _run_service thread of each service calls it).  Every caller uses the   *)
(* file Dockerfile.temp of the one working directory.                      *)
(***************************************************************************)
BuildPackages == {<<"numpy">>, <<"pandas">>}

BuildFrame == UNCHANGED <<managerVars, digestVars, serviceVars, webhookVars, catalogVars,
                          jobVars, vaultVars, proxyVars, execVars, cronVars, relayVars,
                          fetchVars, routeVars, startVars,
                          detectVars,
                          api_responses>>

\* lines 131-148: the tag is computed and `docker image inspect` asked; an
\* image that exists is returned, otherwise the caller goes on to build
InspectImage(t) ==
    /\ builders[t].pc = "idle"
    /\ \E packages \in BuildPackages :
        builders' = [builders EXCEPT ![t] =
            IF GetPackageHash(packages) \in DOMAIN images
            THEN [pc |-> "done", packages |-> packages, result |-> "tag"]
            ELSE [pc |-> "write", packages |-> packages, result |-> ""]]
    /\ UNCHANGED <<dockerfile, images>>
    /\ BuildFrame

\* lines 150-165: with open("Dockerfile.temp", "w") as f: f.write(...)
WriteDockerfile(t) ==
    /\ builders[t].pc = "write"
    /\ dockerfile' = [exists |-> TRUE, packages |-> builders[t].packages]
    /\ builders' = [builders EXCEPT ![t].pc = "build"]
    /\ UNCHANGED images
    /\ BuildFrame

\* lines 167-176: docker build -t image_tag -f Dockerfile.temp . installs
\* what the file names at that moment; without the file the build fails and
\* the caller raises.  pip itself is taken to succeed.
DockerBuild(t) ==
    /\ builders[t].pc = "build"
    /\ IF dockerfile.exists
       THEN /\ images' = AddRow(images, GetPackageHash(builders[t].packages),
                                dockerfile.packages)
            /\ builders' = [builders EXCEPT ![t].pc = "remove", ![t].result = "tag"]
       ELSE /\ builders' = [builders EXCEPT ![t].pc = "remove", ![t].result = "raised"]
            /\ UNCHANGED images
    /\ UNCHANGED dockerfile
    /\ BuildFrame

\* lines 177-182, the finally clause: the file is removed if it exists, and
\* the tag is returned or the exception goes on
RemoveDockerfile(t) ==
    /\ builders[t].pc = "remove"
    /\ dockerfile' = NoFile
    /\ builders' = [builders EXCEPT ![t].pc = "done"]
    /\ UNCHANGED images
    /\ BuildFrame

\* the caller has its answer and may come again
BuildReturns(t) ==
    /\ builders[t].pc = "done"
    /\ builders' = [builders EXCEPT ![t] = NoBuilder]
    /\ UNCHANGED <<dockerfile, images>>
    /\ BuildFrame

NextBuild ==
    \/ \E t \in 1..NumThreads : InspectImage(t)
    \/ \E t \in 1..NumThreads : WriteDockerfile(t)
    \/ \E t \in 1..NumThreads : DockerBuild(t)
    \/ \E t \in 1..NumThreads : RemoveDockerfile(t)
    \/ \E t \in 1..NumThreads : BuildReturns(t)

SpecBuild == Init /\ [][NextBuild]_vars

\* C37: when builds of different digests run concurrently, each image tag is
\* built from the package set of its own digest and neither build fails
\* because of the other
C37_BuildsDoNotInterfere ==
    /\ \A h \in DOMAIN images : GetPackageHash(images[h]) = h
    /\ \A t \in 1..NumThreads : builders[t].result # "raised"

(***************************************************************************)
(* code_executor.py execute_code, the start of a web service (596-675):    *)
(* docker exec -d of the start script, the wait, the probes, the result.   *)
(***************************************************************************)
\* the sandboxes of the web services that wait to be started
WebSandboxes == 1..NumPorts

WebTypes == {"streamlit", "fastapi", "flask", "dash"}

\* two web sandboxes have been created and their code saved (lines 396-436)
InitWebStart ==
    /\ \E types \in [WebSandboxes -> WebTypes] :
        /\ docker = [c \in Ids |->
              IF c \in WebSandboxes
              THEN [state |-> "running", hash |-> GetPackageHash(<<>>),
                    port |-> PortLo + c - 1, web |-> TRUE, opts |-> WebRunOptions]
              ELSE AbsentSandbox]
        /\ web_service_containers = [c \in WebSandboxes |->
              [type |-> types[c], internal_port |-> PortLo + c - 1,
               external_port |-> PortLo + c - 1]]
    /\ containers = EmptyMap
    /\ container_names = EmptyMap
    /\ thr = [t \in Threads |-> IdleThread]
    /\ logs = <<>>
    /\ responses = <<>>
    /\ destroyed = {}
    /\ nreq = 0
    /\ DigestIdle /\ ServicesIdle
    /\ WebhooksIdle /\ CatalogIdle /\ JobsIdle /\ VaultIdle /\ ProxyIdle /\ ExecIdle
    /\ OtherIdle
    /\ api_responses = <<>>

\* lines 637-668: `if not success` tests the return code of docker exec -d
\* alone; the outputs of the process probe and of the port probe are printed
StartResult(exec_ok, process, port) == exec_ok

\* lines 596-675 for sandbox c.  exec_ok: docker exec -d returned 0.
\* process, port: whether the service process exists and the port listens
\* after the wait of 8 s.  killed: a probe ran into its timeout, on which
\* _execute_with_timeout kills and removes the sandbox.
StartWebService ==
    /\ \E c \in WebSandboxes, exec_ok \in BOOLEAN, process \in BOOLEAN,
          port \in BOOLEAN, killed \in BOOLEAN :
        /\ ~web_starts[c].started
        /\ IsRunning(c)
        /\ port => process
        /\ process => exec_ok
        /\ web_starts' = [web_starts EXCEPT ![c] =
              [started |-> TRUE, exec_ok |-> exec_ok, process |-> process,
               port |-> port, success |-> StartResult(exec_ok, process, port)]]
        /\ IF killed
           THEN /\ docker' = [docker EXCEPT ![c] = RemovedSandbox]
                /\ containers' = Evict(containers, c)
           ELSE UNCHANGED <<docker, containers>>
    /\ UNCHANGED <<web_service_containers, container_names, thr, logs, responses,
                   destroyed, nreq, digestVars, serviceVars, webhookVars, catalogVars,
                   jobVars, vaultVars, proxyVars, execVars, cronVars, relayVars,
                   fetchVars, routeVars, buildVars, detectVars, api_responses>>

NextWebStart == StartWebService

SpecWebStart == InitWebStart /\ [][NextWebStart]_vars

\* C38: a web-service execution is reported as started only if the service
\* process exists and its port is listening within the grace window;
\* otherwise the sandbox is kept
C38_StartedMeansListening ==
    \A c \in WebSandboxes :
        web_starts[c].started =>
            /\ web_starts[c].success => (web_starts[c].process /\ web_starts[c].port)
            /\ ~web_starts[c].success => docker[c].state # "removed"

(***************************************************************************)
(* code_executor.py _detect_web_service over the codes and package lists   *)
(* that tell the frameworks apart.                                         *)
(***************************************************************************)
\* the substrings a code text can contain
CodeMarks == {"st.", "import gradio", "fastapi", "uvicorn", "flask", "dash"}

DetectPackages ==
    {<<>>, <<"streamlit">>, <<"gradio">>, <<"fastapi">>, <<"uvicorn">>, <<"flask">>,
     <<"dash">>, <<"plotly">>}

\* _detect_web_service (lines 89-129): the port is allocated first, then the
\* rules are tried in their order
DetectCall ==
    /\ \E code \in SUBSET CodeMarks, packages \in DetectPackages, ip \in AllocatePort :
        /\ ip # NoPort
        /\ detected' = [code |-> code, packages |-> packages, internal_port |-> ip,
                        type |-> DetectWebService(code, packages)]
    /\ UNCHANGED <<managerVars, digestVars, serviceVars, webhookVars, catalogVars,
                   jobVars, vaultVars, proxyVars, execVars, cronVars, relayVars,
                   fetchVars, routeVars, buildVars, startVars, api_responses>>

NextDetect == DetectCall

SpecDetect == Init /\ [][NextDetect]_vars

\* the documented rules, first match wins: Streamlit, Gradio, FastAPI, Flask,
\* Dash, else one-shot
DocumentedKind(code, packages) ==
    IF InPackages("streamlit", packages) \/ "st." \in code THEN "streamlit"
    ELSE IF InPackages("gradio", packages) \/ "import gradio" \in code THEN "gradio"
    ELSE IF InPackages("fastapi", packages) \/ InPackages("uvicorn", packages)
            \/ ("fastapi" \in code /\ "uvicorn" \in code) THEN "fastapi"
    ELSE IF InPackages("flask", packages) \/ "flask" \in code THEN "flask"
    ELSE IF InPackages("dash", packages)
            \/ ("dash" \in code /\ InPackages("plotly", packages)) THEN "dash"
    ELSE None

\* C39: the classification follows the documented ordered rules, first match
\* wins, and code that matches no rule is one-shot
C39_DocumentedDetectionRules ==
    detected.type # "" =>
        detected.type = DocumentedKind(detected.code, detected.packages)

(***************************************************************************)
(* The effect of a failed POST /containers.                                *)
(***************************************************************************)
\* C40: a POST /containers request that ends in an error leaves the reuse
\* map and the name map as they were before the request
C40_FailedCreateChangesNothing ==
    [][(Answers("create") /\ responses'[Len(responses')].code >= 400)
          => (containers' = containers /\ container_names' = container_names)]_vars

====
